---- MODULE Spec2Model ----
(***************************************************************************)
(* A model of the knowipy SDK: the base HTTP client (construction, login,   *)
(* api_call, request dispatch, response normalisation), the argument        *)
(* validators of decorators.py and the facade operations that compose them. *)
(* Python values are tagged records, strings are TLA+ strings handled       *)
(* character by character, a dict is a function from its keys.              *)
(***************************************************************************)
EXTENDS Integers, Sequences, FiniteSets, TLC

\* ------------------------------------------------------------------------
\* Bounds of the model
\* ------------------------------------------------------------------------
\* longest list of share targets / content-filter clauses a call passes
MaxRecords == 2

\* ------------------------------------------------------------------------
\* Python values
\* ------------------------------------------------------------------------
EmptyDict == [k \in {} |-> ""]

PyV(t, s, n, items, d) == [t |-> t, s |-> s, n |-> n, items |-> items, d |-> d]

PyNone == PyV("NoneType", "", 0, <<>>, EmptyDict)

PyStr(x) == PyV("str", x, 0, <<>>, EmptyDict)

PyInt(x) == PyV("int", "", x, <<>>, EmptyDict)

PyList(xs) == PyV("list", "", 0, xs, EmptyDict)

\* True and False: a bool is an int in Python, with n the value it compares as
PyBool(b) == PyV("bool", "", IF b THEN 1 ELSE 0, <<>>, EmptyDict)

PyDict(f) == PyV("dict", "", 0, <<>>, f)

\* bool(v): the truth value Python gives a value in `if v:` / `not v` / all()
Truthy(v) ==
    CASE v.t = "NoneType" -> FALSE
      [] v.t = "str"      -> v.s # ""
      [] v.t = "int"      -> v.n # 0
      [] v.t = "bool"     -> v.n # 0
      [] v.t = "list"     -> v.items # <<>>
      [] v.t = "dict"     -> DOMAIN v.d # {}
      [] OTHER            -> TRUE

\* ------------------------------------------------------------------------
\* Strings
\* ------------------------------------------------------------------------
StartsWith(s, p) == Len(s) >= Len(p) /\ SubSeq(s, 1, Len(p)) = p

EndsWith(s, p) == Len(s) >= Len(p) /\ SubSeq(s, Len(s) - Len(p) + 1, Len(s)) = p

\* str.split(sep) for a one-character separator
RECURSIVE SplitFrom(_, _, _, _)
SplitFrom(s, sep, i, cur) ==
    IF i > Len(s) THEN <<cur>>
    ELSE IF SubSeq(s, i, i) = sep
         THEN <<cur>> \o SplitFrom(s, sep, i + 1, "")
         ELSE SplitFrom(s, sep, i + 1, cur \o SubSeq(s, i, i))

Split(s, sep) == SplitFrom(s, sep, 1, "")

\* str.replace(c, '') for a one-character c
RECURSIVE RemoveFrom(_, _, _)
RemoveFrom(s, c, i) ==
    IF i > Len(s) THEN ""
    ELSE (IF SubSeq(s, i, i) = c THEN "" ELSE SubSeq(s, i, i)) \o RemoveFrom(s, c, i + 1)

Remove(s, c) == RemoveFrom(s, c, 1)

\* str(n) for a natural number
DigitChar == <<"0", "1", "2", "3", "4", "5", "6", "7", "8", "9">>

RECURSIVE IntToStr(_)
IntToStr(n) ==
    IF n < 10 THEN DigitChar[n + 1]
    ELSE IntToStr(n \div 10) \o DigitChar[(n % 10) + 1]

LOWERCASE == "abcdefghijklmnopqrstuvwxyz"

UPPERCASE == "ABCDEFGHIJKLMNOPQRSTUVWXYZ"

LowerChar(c) ==
    IF \E i \in 1..26 : SubSeq(UPPERCASE, i, i) = c
    THEN LET i == CHOOSE i \in 1..26 : SubSeq(UPPERCASE, i, i) = c IN SubSeq(LOWERCASE, i, i)
    ELSE c

UpperChar(c) ==
    IF \E i \in 1..26 : SubSeq(LOWERCASE, i, i) = c
    THEN LET i == CHOOSE i \in 1..26 : SubSeq(LOWERCASE, i, i) = c IN SubSeq(UPPERCASE, i, i)
    ELSE c

RECURSIVE LowerFrom(_, _)
LowerFrom(s, i) ==
    IF i > Len(s) THEN "" ELSE LowerChar(SubSeq(s, i, i)) \o LowerFrom(s, i + 1)

\* str.lower()
Lower(s) == LowerFrom(s, 1)

\* str.capitalize() that leaves the tail of the string as it is
CapitalizeFirstOnly(s) ==
    IF s = "" THEN "" ELSE UpperChar(SubSeq(s, 1, 1)) \o SubSeq(s, 2, Len(s))

\* str.capitalize(): first character upper-cased, the rest lower-cased
Capitalize(s) ==
    IF s = "" THEN "" ELSE UpperChar(SubSeq(s, 1, 1)) \o LowerFrom(s, 2)

\* str(v) of a scalar
StrOf(v) ==
    CASE v.t = "str"      -> v.s
      [] v.t = "int"      -> IntToStr(v.n)
      [] v.t = "NoneType" -> "None"
      [] v.t = "bool"     -> IF v.n = 1 THEN "True" ELSE "False"

SeqsFromTo(S, m, n) == UNION { [1..k -> S] : k \in m..n }

\* ------------------------------------------------------------------------
\* HTTP responses (what the remote service may answer) and call outcomes
\* ------------------------------------------------------------------------
\* rsp.json(): valid says whether the body decodes, v is the decoded value
Json(v) == [valid |-> TRUE, v |-> v]

NotJson == [valid |-> FALSE, v |-> PyNone]

Response(status, text, json, headers) ==
    [status_code |-> status, text |-> text, json |-> json, headers |-> headers]

NoRsp == Response(0, "", NotJson, EmptyDict)

\* the transport gave no response: requests raised ConnectionError instead
NoAnswer == Response(0, "connection refused", NotJson, EmptyDict)

NoVal == [data |-> PyNone, headers |-> EmptyDict, statusCode |-> 0]

\* an outcome: returned val, or raised exc (`at` is the stage that raised it;
\* rsp is the response a KnowiApiException wraps)
RaiseAt(exc, at) == [kind |-> "raise", exc |-> exc, at |-> at, rsp |-> NoRsp, val |-> NoVal]

Raise(exc) == RaiseAt(exc, "call")

Rejected(exc) == RaiseAt(exc, "validator")

NoOutcome == [kind |-> "none", exc |-> "", at |-> "", rsp |-> NoRsp, val |-> NoVal]

Return(val) == [kind |-> "return", exc |-> "", at |-> "", rsp |-> NoRsp, val |-> val]

\* requests.Response.ok: no 4xx/5xx status
Ok(rsp) == rsp.status_code < 400

Bodies ==
    { <<"{\"message\": \"not found\"}", Json(PyDict([message |-> PyStr("not found")]))>>,
      <<"{\"shareUrl\": \"abc\"}", Json(PyDict([shareUrl |-> PyStr("abc")]))>>,
      <<"[\"denied\"]", Json(PyList(<<PyStr("denied")>>))>>,
      <<"Bad Gateway", NotJson>> }

ContentDispositions ==
    { EmptyDict,
      [h \in {"content-disposition"} |-> "attachment"],
      [h \in {"content-disposition"} |-> "attachment; filename=\"report.pdf\""],
      [h \in {"content-disposition"} |-> "attachment; filename=report.pdf"],
      [h \in {"content-disposition"} |-> "inline; filename=a.pdf; size=3"] }

SuccessResponses ==
    { Response(200, b[1], b[2], h) :
        b \in { x \in Bodies : x[1] \in {"{\"shareUrl\": \"abc\"}", "Bad Gateway"} },
        h \in ContentDispositions }

ErrorResponses ==
    { Response(st, b[1], b[2], EmptyDict) : st \in {404, 500}, b \in Bodies }

Responses == SuccessResponses \cup ErrorResponses

LoginResponses ==
    { Response(200, "{\"access_token\": \"tok\"}", Json(PyDict([access_token |-> PyStr("tok")])), EmptyDict),
      Response(401, "{\"message\": \"bad credentials\"}",
               Json(PyDict([message |-> PyStr("bad credentials")])), EmptyDict),
      Response(502, "Bad Gateway", NotJson, EmptyDict) }

\* ------------------------------------------------------------------------
\* State
\* ------------------------------------------------------------------------
VARIABLES
    constructed,       \* a client object exists (construction returned)
    host,              \* self.host
    flag,              \* self.flag
    clientId,          \* self.clientId
    clientSecret,      \* self.clientSecret
    ssoCustomerToken,  \* self.ssoCustomerToken
    sessionHeaders,    \* self.session.headers (the Authorization entry)
    op,                \* the last operation called
    passed,            \* its arguments, as the caller passed them
    after,             \* the caller's argument objects after the call
    wire,              \* the HTTP requests the last operation issued, in order
    answers,           \* the responses the transport gave to them, in order
    disk,              \* the files the last operation wrote
    outcome            \* what the last operation returned or raised

vars == <<constructed, host, flag, clientId, clientSecret, ssoCustomerToken,
          sessionHeaders, op, passed, after, wire, answers, disk, outcome>>

client == <<constructed, host, flag, clientId, clientSecret, ssoCustomerToken>>

BASE_URL == "https://www.knowi.com"

Hosts == {BASE_URL, BASE_URL \o "/", BASE_URL \o "//"}

Credentials == {PyNone, PyStr(""), PyStr("k3y")}

\* the keyword arguments of the constructor: the credentials of the chosen
\* mode in every combination, and calls that give only the other mode's
ConstructorArgs ==
    { [flag |-> "mgmt", clientId |-> cid, clientSecret |-> csec, customerToken |-> PyNone] :
        cid \in Credentials, csec \in Credentials }
    \cup { [flag |-> "sso", clientId |-> PyNone, clientSecret |-> PyNone, customerToken |-> tok] :
        tok \in Credentials }
    \cup { [flag |-> f, clientId |-> PyStr("k3y"), clientSecret |-> c, customerToken |-> PyNone] :
        f \in {"sso", "admin"}, c \in {PyNone, PyStr("k3y")} }
    \cup { [flag |-> f, clientId |-> PyNone, clientSecret |-> PyNone, customerToken |-> PyStr("k3y")] :
        f \in {"mgmt", "admin"} }
    \cup { [flag |-> "admin", clientId |-> PyNone, clientSecret |-> PyNone, customerToken |-> PyNone] }

\* one HTTP request as handed to the transport
Request(via, verb, url, args, headers, stream) ==
    [via |-> via, verb |-> verb, url |-> url, data |-> args.data, files |-> args.files,
     params |-> args.params, json |-> args.json, headers |-> headers, stream |-> stream]

RequestArgs(data, files, params, json) ==
    [data |-> data, files |-> files, params |-> params, json |-> json]

LoginUrl(h) == h \o "/api/1.0/login"

\* auth() that inspects the login exchange: a body without access_token
\* raises instead of setting the header
authRequiringToken(h, cid, csec, headers, rsp) ==
    LET data == PyDict([client_id |-> cid, client_secret |-> csec])
        req  == Request("session", "POST", LoginUrl(h),
                        RequestArgs(data, PyNone, PyNone, PyNone), headers, FALSE)
        body == rsp.json.v
    IN  IF ~rsp.json.valid
        THEN [wire |-> <<req>>, headers |-> headers, exc |-> "ValueError"]
        ELSE IF body.t # "dict"
        THEN [wire |-> <<req>>, headers |-> headers, exc |-> "AttributeError"]
        ELSE IF "access_token" \notin DOMAIN body.d
        THEN [wire |-> <<req>>, headers |-> headers, exc |-> "KnowiException"]
        ELSE [wire |-> <<req>>,
              headers |-> [k \in DOMAIN headers \cup {"Authorization"} |->
                             IF k = "Authorization" THEN "Bearer " \o body.d["access_token"].s
                             ELSE headers[k]],
              exc |-> ""]

\* BaseClient.auth: the login exchange and the header it leaves on the session
auth(h, cid, csec, headers, rsp) ==
    LET data == PyDict([client_id |-> cid, client_secret |-> csec])
        req  == Request("session", "POST", LoginUrl(h),
                        RequestArgs(data, PyNone, PyNone, PyNone), headers, FALSE)
        body == rsp.json.v
        tok  == IF "access_token" \in DOMAIN body.d THEN body.d["access_token"].s ELSE "None"
    IN  IF ~rsp.json.valid
        THEN [wire |-> <<req>>, headers |-> headers, exc |-> "ValueError"]
        ELSE IF body.t # "dict"
        THEN [wire |-> <<req>>, headers |-> headers, exc |-> "AttributeError"]
        ELSE [wire |-> <<req>>,
              headers |-> [k \in DOMAIN headers \cup {"Authorization"} |->
                             IF k = "Authorization" THEN "Bearer " \o tok ELSE headers[k]],
              exc |-> ""]

NormalizeHost(h) == IF EndsWith(h, "/") THEN SubSeq(h, 1, Len(h) - 1) ELSE h

\* BaseClient.__init__ with `any` in place of `all` in the credential check
Init__AnyCredential(h, cid, csec, tok, f, loginRsp) ==
    LET login == auth(NormalizeHost(h), cid, csec, EmptyDict, loginRsp)
    IN  IF f \notin {"mgmt", "sso"}
        THEN [exc |-> "KnowiException", wire |-> <<>>, headers |-> EmptyDict]
        ELSE IF f = "mgmt" /\ ~(Truthy(cid) \/ Truthy(csec))
        THEN [exc |-> "KnowiException", wire |-> <<>>, headers |-> EmptyDict]
        ELSE IF f = "mgmt"
        THEN [exc |-> login.exc, wire |-> login.wire, headers |-> login.headers]
        ELSE IF ~Truthy(tok)
        THEN [exc |-> "KnowiException", wire |-> <<>>, headers |-> EmptyDict]
        ELSE [exc |-> "", wire |-> <<>>, headers |-> EmptyDict]

\* BaseClient.__init__ without the check of the SSO customer token
Init__NoTokenCheck(h, cid, csec, tok, f, loginRsp) ==
    LET login == auth(NormalizeHost(h), cid, csec, EmptyDict, loginRsp)
    IN  IF f \notin {"mgmt", "sso"}
        THEN [exc |-> "KnowiException", wire |-> <<>>, headers |-> EmptyDict]
        ELSE IF f = "mgmt" /\ ~(Truthy(cid) /\ Truthy(csec))
        THEN [exc |-> "KnowiException", wire |-> <<>>, headers |-> EmptyDict]
        ELSE IF f = "mgmt"
        THEN [exc |-> login.exc, wire |-> login.wire, headers |-> login.headers]
        ELSE [exc |-> "", wire |-> <<>>, headers |-> EmptyDict]

\* BaseClient.__init__: the exception construction ends with ("" when none) and
\* the requests it issued
Init__(h, cid, csec, tok, f, loginRsp) ==
    LET login == auth(NormalizeHost(h), cid, csec, EmptyDict, loginRsp)
    IN  IF f \notin {"mgmt", "sso"}
        THEN [exc |-> "KnowiException", wire |-> <<>>, headers |-> EmptyDict]
        ELSE IF f = "mgmt" /\ ~(Truthy(cid) /\ Truthy(csec))
        THEN [exc |-> "KnowiException", wire |-> <<>>, headers |-> EmptyDict]
        ELSE IF f = "mgmt"
        THEN [exc |-> login.exc, wire |-> login.wire, headers |-> login.headers]
        ELSE IF ~Truthy(tok)
        THEN [exc |-> "KnowiException", wire |-> <<>>, headers |-> EmptyDict]
        ELSE [exc |-> "", wire |-> <<>>, headers |-> EmptyDict]

NoArgs == [none |-> TRUE]

Init ==
    /\ constructed = FALSE
    /\ host = ""
    /\ flag = ""
    /\ clientId = PyNone
    /\ clientSecret = PyNone
    /\ ssoCustomerToken = PyNone
    /\ sessionHeaders = EmptyDict
    /\ op = "none"
    /\ passed = NoArgs
    /\ after = NoArgs
    /\ wire = <<>>
    /\ answers = <<>>
    /\ disk = {}
    /\ outcome = NoOutcome

\* Knowi(host=h, clientId=cid, clientSecret=csec, customerToken=tok, flag=f)
Construct(h, cid, csec, tok, f, loginRsp) ==
    LET r == Init__(h, cid, csec, tok, f, loginRsp)
    IN  /\ ~constructed
        /\ op = "none"
        /\ op' = "Knowi"
        /\ passed' = [host |-> h, clientId |-> cid, clientSecret |-> csec,
                      customerToken |-> tok, flag |-> f]
        /\ after' = passed'
        /\ wire' = r.wire
        /\ answers' = IF r.wire = <<>> THEN <<>> ELSE <<loginRsp>>
        /\ disk' = {}
        /\ IF r.exc = ""
           THEN /\ constructed' = TRUE
                /\ host' = NormalizeHost(h)
                /\ flag' = f
                /\ clientId' = cid
                /\ clientSecret' = csec
                /\ ssoCustomerToken' = tok
                /\ sessionHeaders' = r.headers
                /\ outcome' = Return(NoVal)
           ELSE /\ UNCHANGED <<constructed, host, flag, clientId, clientSecret,
                               ssoCustomerToken, sessionHeaders>>
                /\ outcome' = Raise(r.exc)

\* ------------------------------------------------------------------------
\* api_call: mode guard, URL resolution, null stripping, dispatch, response
\* ------------------------------------------------------------------------
\* knowipy.utils.cleanNullTerms: the dict without its null-valued keys
cleanNullTerms(v) ==
    PyDict([k \in {x \in DOMAIN v.d : v.d[x].t # "NoneType"} |-> v.d[k]])

\* BaseClient._get_url
GetUrl(h, f, apiMethod) ==
    LET mgmtUrl == h \o "/api/1.0" \o apiMethod
    IN  IF f = "mgmt" THEN mgmtUrl ELSE h \o apiMethod

\* the two guards api_call opens with
ModeMismatch(f, apiMethod) ==
    \/ StartsWith(apiMethod, "/sso/") /\ f # "sso"
    \/ ~StartsWith(apiMethod, "/sso") /\ f = "sso"

\* `if data: data = cleanNullTerms(data) elif json: json = cleanNullTerms(json)`
CleanPayloadsDataOnly(data, json) ==
    IF Truthy(data) THEN [data |-> cleanNullTerms(data), json |-> json]
    ELSE [data |-> data, json |-> json]

CleanPayloads(data, json) ==
    IF Truthy(data) THEN [data |-> cleanNullTerms(data), json |-> json]
    ELSE IF Truthy(json) THEN [data |-> data, json |-> cleanNullTerms(json)]
    ELSE [data |-> data, json |-> json]

\* BaseClient._download_pdf
DownloadPdf(rsp) ==
    LET h        == rsp.headers["content-disposition"]
        parts    == Split(h, "=")
        filename == Remove(parts[2], "\"")
    IN  IF "content-disposition" \notin DOMAIN rsp.headers
        THEN [disk |-> {}, outcome |-> Raise("KeyError")]
        ELSE IF Len(parts) < 2
        THEN [disk |-> {}, outcome |-> Raise("IndexError")]
        ELSE IF filename = ""
        THEN [disk |-> {}, outcome |-> Raise("FileNotFoundError")]
        ELSE [disk |-> {filename},
              outcome |-> Return([data |-> PyStr(filename \o " downloaded"),
                                  headers |-> rsp.headers,
                                  statusCode |-> rsp.status_code])]

\* the part of BaseClient._request that follows the transport call
HandleResponseNoPdf(apiUrl, rsp) ==
    IF Ok(rsp)
    THEN [disk |-> {},
          outcome |-> Return([data |-> IF rsp.json.valid THEN rsp.json.v ELSE PyStr(rsp.text),
                              headers |-> rsp.headers, statusCode |-> rsp.status_code])]
    ELSE [disk |-> {}, outcome |-> [Raise("KnowiApiException") EXCEPT !.rsp = rsp]]

HandleResponse(apiUrl, rsp) ==
    IF Ok(rsp)
    THEN LET data == IF rsp.json.valid THEN rsp.json.v ELSE PyStr(rsp.text)
         IN  IF EndsWith(apiUrl, "/pdf")
             THEN DownloadPdf(rsp)
             ELSE [disk |-> {},
                   outcome |-> Return([data |-> data, headers |-> rsp.headers,
                                       statusCode |-> rsp.status_code])]
    ELSE [disk |-> {}, outcome |-> [Raise("KnowiApiException") EXCEPT !.rsp = rsp]]

\* BaseClient._request sending every request through the persistent session
Request_AlwaysSession(f, headers, httpVerb, apiUrl, requestArgs, rsp) ==
    LET req == Request("session", httpVerb, apiUrl, requestArgs, headers, TRUE)
        got == HandleResponse(apiUrl, rsp)
    IN  IF rsp = NoAnswer
        THEN [wire |-> <<req>>, answers |-> <<>>, disk |-> {}, outcome |-> Raise("ConnectionError")]
        ELSE [wire |-> <<req>>, answers |-> <<rsp>>, disk |-> got.disk, outcome |-> got.outcome]

\* BaseClient._request sending a failed request a second time
Request_Retrying(f, headers, httpVerb, apiUrl, requestArgs, rsp) ==
    LET req == IF f = "mgmt"
               THEN Request("session", httpVerb, apiUrl, requestArgs, headers, TRUE)
               ELSE Request("oneoff", httpVerb, apiUrl, requestArgs, EmptyDict, FALSE)
        got == HandleResponse(apiUrl, rsp)
    IN  IF rsp = NoAnswer
        THEN [wire |-> <<req, req>>, answers |-> <<>>, disk |-> {},
              outcome |-> Raise("ConnectionError")]
        ELSE IF ~Ok(rsp)
        THEN [wire |-> <<req, req>>, answers |-> <<rsp, rsp>>, disk |-> got.disk,
              outcome |-> got.outcome]
        ELSE [wire |-> <<req>>, answers |-> <<rsp>>, disk |-> got.disk, outcome |-> got.outcome]

\* BaseClient._request: the request goes through the session in management
\* mode and as a one-off requests.request otherwise; an exception of the
\* transport propagates, a response is handed to the normalizer
Request_(f, headers, httpVerb, apiUrl, requestArgs, rsp) ==
    LET req == IF f = "mgmt"
               THEN Request("session", httpVerb, apiUrl, requestArgs, headers, TRUE)
               ELSE Request("oneoff", httpVerb, apiUrl, requestArgs, EmptyDict, FALSE)
        got == HandleResponse(apiUrl, rsp)
    IN  IF rsp = NoAnswer
        THEN [wire |-> <<req>>, answers |-> <<>>, disk |-> {}, outcome |-> Raise("ConnectionError")]
        ELSE [wire |-> <<req>>, answers |-> <<rsp>>, disk |-> got.disk, outcome |-> got.outcome]

\* BaseClient.api_call
api_call(apiMethod, httpVerb, files, data, params, json, rsp) ==
    IF ModeMismatch(flag, apiMethod)
    THEN [wire |-> <<>>, answers |-> <<>>, disk |-> {}, outcome |-> Raise("KnowiException")]
    ELSE LET apiUrl == GetUrl(host, flag, apiMethod)
             clean  == CleanPayloads(data, json)
         IN  Request_(flag, sessionHeaders, httpVerb, apiUrl,
                      RequestArgs(clean.data, files, params, clean.json), rsp)

\* KnowiApiException.status
Status(exc) == exc.rsp.status_code

\* KnowiApiException.message: the value, or the exception the property raises
Message(exc) ==
    LET body == exc.rsp.json.v
    IN  IF ~exc.rsp.json.valid
        THEN [exc |-> "", value |-> PyStr(exc.rsp.text)]
        ELSE IF body.t # "dict"
        THEN [exc |-> "TypeError", value |-> PyNone]
        ELSE IF "message" \notin DOMAIN body.d
        THEN [exc |-> "", value |-> PyStr(exc.rsp.text)]
        ELSE [exc |-> "", value |-> body.d["message"]]

\* inputs of a direct api_call
Endpoints ==
    { <<"/dashboards", "POST">>, <<"/dashboards/7/export/pdf", "GET">>,
      <<"/sso/user/create", "POST">>, <<"/sso", "GET">>, <<"/ssox/y", "GET">>,
      <<"users/7/groups/3", "PUT">> }

PayloadKeys == {"a", "b"}

PayloadValues == {PyNone, PyList(<<>>), PyStr("v")}

Payloads ==
    {PyNone} \cup { PyDict(f) : f \in UNION { [ks -> PayloadValues] : ks \in SUBSET PayloadKeys } }

BothPayloads == { PyDict(EmptyDict), PyDict([a |-> PyNone, b |-> PyStr("v")]) }

\* <<data, json, params>>
PayloadTriples ==
    { <<d, PyNone, PyNone>> : d \in Payloads }
    \cup { <<PyNone, j, PyNone>> : j \in Payloads }
    \cup { <<d, j, PyNone>> : d \in BothPayloads, j \in BothPayloads }
    \cup { <<PyNone, PyNone, PyDict([a |-> PyNone])>> }

\* <<endpoint, payloads, response>> of the direct api_calls: every payload
\* against one success and one error response, and every response to a call
\* without payload
ApiCallArgs ==
    { <<e, p, rsp>> : e \in Endpoints, p \in PayloadTriples,
                      rsp \in { r \in Responses :
                                  /\ r.headers = EmptyDict
                                  /\ r.text \in {"{\"shareUrl\": \"abc\"}",
                                                 "{\"message\": \"not found\"}"}
                                  /\ r.status_code \in {200, 404} } }
    \cup { <<e, <<PyNone, PyNone, PyNone>>, rsp>> : e \in Endpoints, rsp \in Responses }

\* client.api_call(apiMethod, httpVerb, data=.., json=.., params=..)
ApiCall(apiMethod, httpVerb, data, json, params, rsp) ==
    LET r == api_call(apiMethod, httpVerb, PyNone, data, params, json, rsp)
    IN  /\ constructed
        /\ op = "none"
        /\ op' = "api_call"
        /\ passed' = [apiMethod |-> apiMethod, httpVerb |-> httpVerb, data |-> data,
                      json |-> json, params |-> params]
        /\ after' = passed'
        /\ wire' = r.wire
        /\ answers' = r.answers
        /\ disk' = r.disk
        /\ outcome' = r.outcome
        /\ UNCHANGED <<client, sessionHeaders>>

\* ------------------------------------------------------------------------
\* decorators.py: the content-filter validator
\* ------------------------------------------------------------------------
OPERATOR_NAME ==
    <<"equals", "not equals", "greater than", "greater than or equals", "less than",
      "less than or equals", "contains", "does not contain">>

OPERATOR_VALUE == <<"=", "!=", ">", ">=", "<", "<=", "like", "not like">>

CONTENT_FILTER_FIELDS == <<"fieldName", "values", "operator">>

Elems(seq) == { seq[i] : i \in DOMAIN seq }

\* `i.get('operator') in chain(OPERATOR_NAME, OPERATOR_VALUE)`
OperatorAcceptedIgnoringCase(v) ==
    v.t = "str" /\ Lower(v.s) \in Elems(OPERATOR_NAME \o OPERATOR_VALUE)

OperatorAccepted(v) ==
    v.t = "str" /\ v.s \in Elems(OPERATOR_NAME \o OPERATOR_VALUE)

\* the values of a clause after the isinstance check, without the str()
CoerceValuesNoStr(values) ==
    IF values.t # "list" THEN PyList(<<values>>) ELSE values

\* `if not isinstance(i['values'], list): i['values'] = [str(filterValue)]`
CoerceValues(values) ==
    IF values.t # "list" THEN PyList(<<PyStr(StrOf(values))>>) ELSE values

\* the body of the loop of _validateContentFilters for one clause: the clause
\* as the loop leaves it and the exception raised on it ("" when none)
ValidateClause(c) ==
    IF \A elem \in Elems(CONTENT_FILTER_FIELDS) : elem \in DOMAIN c
    THEN LET c1 == [c EXCEPT !["values"] = CoerceValues(c["values"])]
         IN  IF ~OperatorAccepted(c1["operator"])
             THEN [c |-> c1, exc |-> "KnowiException"]
             ELSE [c |-> c1, exc |-> ""]
    ELSE [c |-> c, exc |-> "KnowiException"]

RECURSIVE ValidateClauses(_, _)
ValidateClauses(items, i) ==
    IF i > Len(items) THEN [items |-> items, exc |-> ""]
    ELSE LET r == ValidateClause(items[i])
             done == [items EXCEPT ![i] = r.c]
         IN  IF r.exc # "" THEN [items |-> done, exc |-> r.exc]
             ELSE ValidateClauses(done, i + 1)

\* _validateContentFilters: the argument as the call leaves it, and the exception
validateContentFilters(contentFilter) ==
    IF Truthy(contentFilter) /\ contentFilter.t = "list"
    THEN LET r == ValidateClauses(contentFilter.items, 1)
         IN  [arg |-> PyList(r.items), exc |-> r.exc]
    ELSE [arg |-> contentFilter, exc |-> ""]

FilterValues ==
    {PyStr("AZ"), PyInt(2016), PyNone, PyList(<<PyStr("AZ")>>), PyList(<<>>)}

SampleOperators ==
    Elems(OPERATOR_NAME \o OPERATOR_VALUE) \cup {"==", "Equals", "LIKE", ""}

Clause(keys, values, operator) ==
    [k \in keys |-> CASE k = "fieldName" -> PyStr("State")
                      [] k = "values"    -> values
                      [] k = "operator"  -> PyStr(operator)]

AllClauses ==
    { Clause(Elems(CONTENT_FILTER_FIELDS), v, o) : v \in FilterValues, o \in SampleOperators }
    \cup { Clause(ks, PyInt(2016), "=") : ks \in SUBSET Elems(CONTENT_FILTER_FIELDS) }

ListClauses ==
    { Clause(Elems(CONTENT_FILTER_FIELDS), PyInt(2016), "="),
      Clause(Elems(CONTENT_FILTER_FIELDS), PyList(<<PyStr("AZ")>>), "like"),
      Clause(Elems(CONTENT_FILTER_FIELDS), PyStr("AZ"), "=="),
      Clause({"fieldName", "values"}, PyStr("AZ"), "=") }

ContentFilterArgs ==
    {PyNone, PyList(<<>>), PyStr("State")}
    \cup { PyList(<<c>>) : c \in AllClauses }
    \cup { PyList(cs) : cs \in SeqsFromTo(ListClauses, 2, MaxRecords) }

\* a direct call _validateContentFilters(contentFilter)
ValidateContentFilters(contentFilter) ==
    LET r == validateContentFilters(contentFilter)
    IN  /\ op = "none"
        /\ op' = "_validateContentFilters"
        /\ passed' = [contentFilter |-> contentFilter]
        /\ after' = [contentFilter |-> r.arg]
        /\ wire' = <<>>
        /\ answers' = <<>>
        /\ disk' = {}
        /\ outcome' = IF r.exc = "" THEN Return([NoVal EXCEPT !.data = r.arg])
                      ELSE Rejected(r.exc)
        /\ UNCHANGED <<client, sessionHeaders>>

\* ------------------------------------------------------------------------
\* decorators.py: the share-target validator, and a share operation
\* ------------------------------------------------------------------------
ACCESS_LEVEL == {PyInt(1), PyInt(2)}

\* the type of a share target as the validator rewrites it
NormalizedTypeFirstOnly(i) == PyStr(CapitalizeFirstOnly(i["type"].s))

NormalizedType(i) == PyStr(Capitalize(i["type"].s))

\* the body of the loop of validateShareParams for one target: the target as
\* the loop leaves it and the exception raised on it ("" when none)
ValidateTarget(i) ==
    IF "type" \notin DOMAIN i THEN [i |-> i, exc |-> "KnowiException"]
    ELSE LET i1 == [i EXCEPT !["type"] = NormalizedType(i)]
         IN  IF i1["type"].s = "Users"
             THEN IF ~({"access_level", "name"} \subseteq DOMAIN i1)
                  THEN [i |-> i1, exc |-> "KnowiException"]
                  ELSE IF i1["access_level"] \notin ACCESS_LEVEL
                  THEN [i |-> i1, exc |-> "KnowiException"]
                  ELSE [i |-> i1, exc |-> ""]
             ELSE IF i1["type"].s = "Groups"
             THEN IF ~({"access_level", "id"} \subseteq DOMAIN i1)
                  THEN [i |-> i1, exc |-> "KnowiException"]
                  ELSE IF i1["access_level"] \notin ACCESS_LEVEL
                  THEN [i |-> i1, exc |-> "ValueError"]
                  ELSE [i |-> i1, exc |-> ""]
             ELSE [i |-> i1, exc |-> "ValueError"]

RECURSIVE ValidateTargets(_, _)
ValidateTargets(items, n) ==
    IF n > Len(items) THEN [items |-> items, exc |-> ""]
    ELSE LET r == ValidateTarget(items[n])
             done == [items EXCEPT ![n] = r.i]
         IN  IF r.exc # "" THEN [items |-> done, exc |-> r.exc]
             ELSE ValidateTargets(done, n + 1)

\* kwargs.get(key): None when the keyword was not passed
Get(kwargs, key) == IF key \in DOMAIN kwargs THEN kwargs[key] ELSE PyNone

\* validateShareParams.wrapper up to the call of the wrapped function: the
\* keyword arguments as it leaves them (the lists are the caller's objects)
\* and the exception raised ("" when none)
validateShareParams(kwargs) ==
    IF Truthy(Get(kwargs, "shareProperty")) \/ Truthy(Get(kwargs, "userGroups"))
    THEN LET key == IF Truthy(Get(kwargs, "shareProperty")) THEN "shareProperty"
                    ELSE "userGroups"
             r   == ValidateTargets(kwargs[key].items, 1)
         IN  [kwargs |-> [kwargs EXCEPT ![key] = PyList(r.items)], exc |-> r.exc]
    ELSE [kwargs |-> kwargs, exc |-> ""]

TargetKeys == {"type", "access_level", "name", "id"}

TargetTypes == {"users", "Users", "USERS", "gRoUpS", "groups", "teams"}

Target(keys, type, level) ==
    [k \in keys |-> CASE k = "type"         -> PyStr(type)
                      [] k = "access_level" -> PyInt(level)
                      [] k = "name"         -> PyStr("someUser1@host.com")
                      [] k = "id"           -> PyInt(10001)]

AllTargets ==
    { Target(ks, ty, al) : ks \in SUBSET TargetKeys, ty \in TargetTypes, al \in {1, 2, 3} }

ListTargets ==
    { Target({"type", "access_level", "name"}, "users", 1),
      Target({"type", "access_level", "id"}, "gRoUpS", 2),
      Target({"type", "name"}, "Users", 1),
      Target({"type", "access_level", "id"}, "Groups", 3),
      Target({"type", "access_level", "name", "id"}, "teams", 1) }

SharePropertyArgs ==
    {PyNone, PyList(<<>>)}
    \cup { PyList(<<t>>) : t \in AllTargets }
    \cup { PyList(ts) : ts \in SeqsFromTo(ListTargets, 2, MaxRecords) }

\* the other keyword arguments a caller may add to a share operation
ShareExtraKwargs ==
    { EmptyDict,
      [k \in {"userGroups"} |-> PyList(<<Target({"type", "access_level", "id"}, "groups", 1)>>)],
      [k \in {"userGroups"} |-> PyList(<<Target({"access_level", "id"}, "groups", 1)>>)] }

FacadeResponses ==
    { Response(200, "{\"shareUrl\": \"abc\"}", Json(PyDict([shareUrl |-> PyStr("abc")])), EmptyDict),
      Response(404, "{\"message\": \"not found\"}",
               Json(PyDict([message |-> PyStr("not found")])), EmptyDict),
      NoAnswer }

DashboardIds == {7}

\* <<shareProperty, other keyword arguments, response>> of the share calls:
\* every shareProperty alone against a success response, and the sampled
\* targets with every other keyword argument and response
ShareCalls ==
    { <<sp, EmptyDict, rsp>> : sp \in SharePropertyArgs,
                               rsp \in { r \in FacadeResponses : r.status_code = 200 } }
    \cup { <<PyList(<<t>>), extra, rsp>> : t \in ListTargets, extra \in ShareExtraKwargs,
                                          rsp \in FacadeResponses }

\* d1 updated with d2 (dict.update, or the merge of keyword arguments)
Update(d1, d2) ==
    [k \in DOMAIN d1 \cup DOMAIN d2 |-> IF k \in DOMAIN d2 THEN d2[k] ELSE d1[k]]

Without(d, keys) == [k \in DOMAIN d \ keys |-> d[k]]

\* client.dashboard_shareToUserGroups(dashboardId=.., shareProperty=.., **extra)
dashboard_shareToUserGroups(dashboardId, shareProperty, extra, rsp) ==
    LET given  == Update(extra, [k \in {"dashboardId", "shareProperty"} |->
                                   IF k = "dashboardId" THEN PyInt(dashboardId)
                                   ELSE shareProperty])
        v      == validateShareParams(given)
        kwargs == Update(Without(v.kwargs, {"dashboardId", "shareProperty"}),
                         [k \in {"shareProperties"} |-> v.kwargs["shareProperty"]])
        r      == api_call("/dashboards/" \o IntToStr(dashboardId) \o "/share", "PUT",
                           PyNone, PyNone, PyNone, PyDict(kwargs), rsp)
    IN  /\ constructed
        /\ op = "none"
        /\ op' = "dashboard_shareToUserGroups"
        /\ passed' = given
        /\ after' = v.kwargs
        /\ IF v.exc # ""
           THEN /\ wire' = <<>>
                /\ answers' = <<>>
                /\ disk' = {}
                /\ outcome' = Rejected(v.exc)
           ELSE /\ wire' = r.wire
                /\ answers' = r.answers
                /\ disk' = r.disk
                /\ outcome' = r.outcome
        /\ UNCHANGED <<client, sessionHeaders>>

\* ------------------------------------------------------------------------
\* A call of a decorated facade method
\* ------------------------------------------------------------------------
\* `left` is what the validators left of the caller's keyword arguments, vexc
\* the exception a validator raised ("" when none), fexc the exception the
\* method raised before its api_call ("" when none), r the api_call's result
FacadeCall(name, given, left, vexc, fexc, r) ==
    /\ constructed
    /\ op = "none"
    /\ op' = name
    /\ passed' = given
    /\ after' = left
    /\ IF vexc # ""
       THEN /\ wire' = <<>>
            /\ answers' = <<>>
            /\ disk' = {}
            /\ outcome' = Rejected(vexc)
       ELSE IF fexc # ""
       THEN /\ wire' = <<>>
            /\ answers' = <<>>
            /\ disk' = {}
            /\ outcome' = Raise(fexc)
       ELSE /\ wire' = r.wire
            /\ answers' = r.answers
            /\ disk' = r.disk
            /\ outcome' = r.outcome
    /\ UNCHANGED <<client, sessionHeaders>>

\* the keyword argument, or the default of the method's signature
GetOr(kwargs, key, default) == IF key \in DOMAIN kwargs THEN kwargs[key] ELSE default

\* a required keyword-only parameter that was not passed: Python's TypeError
Missing(kwargs, required) == IF required \subseteq DOMAIN kwargs THEN "" ELSE "TypeError"

\* ------------------------------------------------------------------------
\* decorators.py / client.py: the category operations
\* ------------------------------------------------------------------------
ASSET_TYPE == {1, 2, 4}

\* `v in (1, 2, 4)`: membership by ==, under which True equals 1
InNumbers(v, nums) == v.t \in {"int", "bool"} /\ v.n \in nums

\* validateCategoryAssets.wrapper that only requires assetType to be passed
validateCategoryAssetsPresentOnly(kwargs) ==
    IF "assetType" \notin DOMAIN kwargs THEN "ValueError" ELSE ""

\* validateCategoryAssets.wrapper up to the call of the wrapped function: the
\* exception raised ("" when none)
validateCategoryAssets(kwargs) ==
    IF ~InNumbers(Get(kwargs, "assetType"), ASSET_TYPE) THEN "ValueError" ELSE ""

\* client.category_list(**given)
category_list(given, rsp) ==
    LET kwargs == Update(Without(given, {"assetType", "sharing"}),
                         [objectType  |-> Get(given, "assetType"),
                          withSharing |-> GetOr(given, "sharing", PyBool(FALSE))])
        r      == api_call("/category", "GET", PyNone, PyNone, PyDict(kwargs), PyNone, rsp)
    IN  FacadeCall("category_list", given, given, validateCategoryAssets(given), "", r)

\* client.category_create(**given)
category_create(given, rsp) ==
    LET kwargs == Update(Without(given, {"assetType", "parentId", "name"}),
                         [parentId     |-> GetOr(given, "parentId", PyInt(0)),
                          categoryName |-> Get(given, "name")])
        r      == api_call("/category?objectType=" \o StrOf(Get(given, "assetType")), "POST",
                           PyNone, PyNone, PyNone, PyDict(kwargs), rsp)
    IN  FacadeCall("category_create", given, given, validateCategoryAssets(given),
                   Missing(given, {"name"}), r)

\* client.category_shareToUserGroups with the two decorators in the other
\* order: the share targets are validated before the asset type
category_shareToUserGroupsShareFirst(given, rsp) ==
    LET aexc   == validateCategoryAssets(given)
        v      == validateShareParams(given)
        kwargs == Update(Without(v.kwargs, {"assetType", "categoryId", "shareProperty"}),
                         [k \in {"shareProperties"} |-> Get(v.kwargs, "shareProperty")])
        r      == api_call("/category/" \o StrOf(Get(given, "categoryId")) \o "/share?objectType="
                               \o StrOf(Get(given, "assetType")), "PUT",
                           PyNone, PyNone, PyNone, PyDict(kwargs), rsp)
    IN  FacadeCall("category_shareToUserGroups", given, v.kwargs,
                   IF v.exc # "" THEN v.exc ELSE aexc,
                   Missing(given, {"categoryId", "shareProperty"}), r)

\* client.category_shareToUserGroups(**given): validateCategoryAssets is the
\* outer decorator, validateShareParams the inner one
category_shareToUserGroups(given, rsp) ==
    LET aexc   == validateCategoryAssets(given)
        v      == validateShareParams(given)
        kwargs == Update(Without(v.kwargs, {"assetType", "categoryId", "shareProperty"}),
                         [k \in {"shareProperties"} |-> Get(v.kwargs, "shareProperty")])
        r      == api_call("/category/" \o StrOf(Get(given, "categoryId")) \o "/share?objectType="
                               \o StrOf(Get(given, "assetType")), "PUT",
                           PyNone, PyNone, PyNone, PyDict(kwargs), rsp)
    IN  FacadeCall("category_shareToUserGroups", given,
                   IF aexc # "" THEN given ELSE v.kwargs,
                   IF aexc # "" THEN aexc ELSE v.exc,
                   Missing(given, {"categoryId", "shareProperty"}), r)

AssetTypes ==
    {PyNone, PyInt(0), PyInt(1), PyInt(2), PyInt(3), PyInt(4), PyInt(5), PyStr("2"), PyBool(TRUE)}

AssetTypeArgs == {EmptyDict} \cup { [k \in {"assetType"} |-> v] : v \in AssetTypes }

CategoryListArgs ==
    { Update(a, x) : a \in AssetTypeArgs, x \in {EmptyDict, [sharing |-> PyBool(TRUE)]} }

CategoryCreateArgs ==
    { Update(a, x) : a \in AssetTypeArgs,
                     x \in {[name |-> PyStr("sales")],
                            [name |-> PyStr("sales"), parentId |-> PyInt(9)]} }

CategoryShareArgs ==
    { Update(a, [categoryId |-> PyInt(5), shareProperty |-> PyList(<<t>>)]) :
        a \in AssetTypeArgs, t \in ListTargets }

\* ------------------------------------------------------------------------
\* decorators.py / client.py: the user validator, users_create, users_edit
\* ------------------------------------------------------------------------
\* pytz.all_timezones, sampled
ALL_TIMEZONES == {"UTC", "US/Pacific"}

\* the first exception of a sequence of checks made in order
RECURSIVE FirstExc(_)
FirstExc(excs) ==
    IF excs = <<>> THEN "" ELSE IF excs[1] # "" THEN excs[1] ELSE FirstExc(Tail(excs))

TimezoneExc(kwargs) ==
    LET userTz == Get(kwargs, "timezone")
    IN  IF ~Truthy(userTz) THEN ""
        ELSE IF userTz.t # "str" THEN "TypeError"
        ELSE IF userTz.s \notin ALL_TIMEZONES THEN "ValueError"
        ELSE ""

\* `if kwargs.get('twoFA'):` and the two checks under it
TwoFAExc(kwargs) ==
    LET twoFA == Get(kwargs, "twoFA")
    IN  IF ~Truthy(twoFA) THEN ""
        ELSE IF twoFA.t # "bool" THEN "TypeError"
        ELSE IF ~Truthy(Get(kwargs, "phone")) THEN "ValueError"
        ELSE ""

\* the phone block without the str()
CoercePhoneNoStr(kwargs) == kwargs

\* `if kwargs.get('phone'): kwargs['phone'] = str(kwargs.get('phone'))`
CoercePhone(kwargs) ==
    IF Truthy(Get(kwargs, "phone"))
    THEN [kwargs EXCEPT !["phone"] = PyStr(StrOf(kwargs["phone"]))]
    ELSE kwargs

\* the userInviteJson block: each invited group carries only access_level, id
InviteExc(kwargs) ==
    LET userProps == Get(kwargs, "userInviteJson")
        addGroups == IF "userGroups" \in DOMAIN userProps.d THEN userProps.d["userGroups"]
                     ELSE PyList(<<>>)
    IN  IF ~Truthy(userProps) THEN ""
        ELSE IF userProps.t # "dict" THEN "AttributeError"
        ELSE IF addGroups.t # "list" THEN "TypeError"
        ELSE IF \E n \in DOMAIN addGroups.items :
                   ~(DOMAIN addGroups.items[n] \subseteq {"access_level", "id"})
        THEN "ValueError"
        ELSE ""

\* the groups block checking only the first group of the list
GroupsExcFirstOnly(kwargs) ==
    LET userGroups == Get(kwargs, "groups")
    IN  IF ~Truthy(userGroups) THEN ""
        ELSE IF userGroups.t # "list" THEN "TypeError"
        ELSE IF \/ ~({"access_level", "id"} \subseteq DOMAIN userGroups.items[1])
                \/ userGroups.items[1]["access_level"] \notin ACCESS_LEVEL
        THEN "KnowiException"
        ELSE ""

\* the groups block: the exception of the first group that fails
GroupsExc(kwargs) ==
    LET userGroups == Get(kwargs, "groups")
    IN  IF ~Truthy(userGroups) THEN ""
        ELSE IF userGroups.t # "list" THEN "TypeError"
        ELSE IF \E n \in DOMAIN userGroups.items :
                   \/ ~({"access_level", "id"} \subseteq DOMAIN userGroups.items[n])
                   \/ userGroups.items[n]["access_level"] \notin ACCESS_LEVEL
        THEN "KnowiException"
        ELSE ""

\* the autoShareTo block
AutoShareExc(kwargs) ==
    LET autoShare == Get(kwargs, "autoShareTo")
        items     == IF autoShare.t = "dict" THEN <<autoShare.d>> ELSE autoShare.items
    IN  IF ~Truthy(autoShare) THEN ""
        ELSE IF autoShare.t \notin {"dict", "list"} THEN "TypeError"
        ELSE IF \E n \in DOMAIN items : "id" \notin DOMAIN items[n] THEN "KnowiException"
        ELSE ""

\* validateUserParams.wrapper from the groups block on; k is the wrapper's
\* dict and left the caller's arguments as the blocks before left them
UserParamsTail(k, left) ==
    [kwargs |-> k, left |-> left, exc |-> FirstExc(<<GroupsExc(k), AutoShareExc(k)>>)]

\* the contentFilter block: the list under `key` is validated, in place
UserParamsFilters(kwargs, k1, key, f) ==
    IF f.exc # ""
    THEN [kwargs |-> [k1 EXCEPT ![key] = f.arg], left |-> [kwargs EXCEPT ![key] = f.arg],
          exc |-> f.exc]
    ELSE UserParamsTail([k1 EXCEPT ![key] = f.arg], [kwargs EXCEPT ![key] = f.arg])

\* validateUserParams.wrapper from the userInviteJson block on; k1 is the
\* wrapper's dict after the phone block
UserParamsAfterPhone(kwargs, k1) ==
    IF InviteExc(k1) # "" THEN [kwargs |-> k1, left |-> kwargs, exc |-> InviteExc(k1)]
    ELSE IF Truthy(Get(k1, "contentFilter"))
    THEN UserParamsFilters(kwargs, k1, "contentFilter",
                           validateContentFilters(Get(k1, "contentFilter")))
    ELSE IF Truthy(Get(k1, "contentFilters"))
    THEN UserParamsFilters(kwargs, k1, "contentFilters",
                           validateContentFilters(Get(k1, "contentFilters")))
    ELSE UserParamsTail(k1, kwargs)

\* validateUserParams.wrapper up to the call of the wrapped function: kwargs
\* is the wrapper's dict as the wrapped function receives it, left the
\* caller's arguments (its lists are mutated in place, its phone is not) and
\* exc the exception raised ("" when none)
validateUserParams(kwargs) ==
    IF FirstExc(<<TimezoneExc(kwargs), TwoFAExc(kwargs)>>) # ""
    THEN [kwargs |-> kwargs, left |-> kwargs,
          exc |-> FirstExc(<<TimezoneExc(kwargs), TwoFAExc(kwargs)>>)]
    ELSE UserParamsAfterPhone(kwargs, CoercePhone(kwargs))

\* the body users_create sends: k is what the validator passed on
UsersCreateJson(k, rest) ==
    PyDict(Update(rest,
        [username           |-> Get(k, "email"),
         password           |-> Get(k, "password"),
         phone              |-> Get(k, "phone"),
         twoFactorAuth      |-> GetOr(k, "twoFA", PyBool(FALSE)),
         timezone           |-> Get(rest, "timezone"),
         autoShareTo        |-> GetOr(rest, "autoShareTo", PyList(<<>>)),
         contentFilters     |-> GetOr(rest, "contentFilters", PyList(<<>>)),
         defaultDashboardId |-> Get(rest, "defaultDashboardId"),
         userInviteJson     |-> PyDict([userGroups |-> Get(k, "groups"),
                                        userRole   |-> GetOr(k, "role", PyStr("user"))])]))

\* users_create behind its validator, whose result is v
UsersCreateValidated(given, v, rsp) ==
    FacadeCall("users_create", given, v.left, v.exc,
               Missing(given, {"email", "password", "phone"}),
               api_call("/users", "POST", PyNone, PyNone, PyNone,
                        UsersCreateJson(v.kwargs,
                            Without(v.kwargs, {"email", "password", "phone", "groups", "role",
                                               "twoFA"})),
                        rsp))

\* client.users_create(**given)
users_create(given, rsp) == UsersCreateValidated(given, validateUserParams(given), rsp)

\* the body users_edit sends: rest is what the validator passed on but userId
UsersEditJson(rest) ==
    PyDict(Update(rest,
        [name               |-> Get(rest, "name"),
         roles              |-> Get(rest, "roles"),
         groups             |-> Get(rest, "groups"),
         autoShareTo        |-> Get(rest, "autoShareTo"),
         twoFactorAuth      |-> Get(rest, "twoFA"),
         phone              |-> Get(rest, "phone"),
         contentFilters     |-> Get(rest, "contentFilters"),
         timezone           |-> Get(rest, "timezone"),
         defaultDashboardId |-> Get(rest, "defaultDashboardId")]))

\* users_edit behind its validator, whose result is v
UsersEditValidated(given, v, rsp) ==
    FacadeCall("users_edit", given, v.left, v.exc, Missing(given, {"userId"}),
               api_call("/users/" \o StrOf(Get(given, "userId")), "PUT", PyNone, PyNone, PyNone,
                        UsersEditJson(Without(v.kwargs, {"userId"})), rsp))

\* client.users_edit(**given)
users_edit(given, rsp) == UsersEditValidated(given, validateUserParams(given), rsp)

\* a keyword argument left out, or passed with one of the values
Opt(key, values) == {EmptyDict} \cup { [k \in {key} |-> v] : v \in values }

Phones ==
    {PyNone, PyStr(""), PyInt(0), PyInt(1234567890), PyStr("555-0100")}

TwoFAs ==
    {PyBool(TRUE), PyBool(FALSE), PyInt(0), PyInt(1), PyStr(""), PyStr("yes"), PyNone}

UserGroup(keys, level) ==
    [k \in keys |-> CASE k = "id"           -> PyInt(889)
                      [] k = "access_level" -> PyInt(level)
                      [] k = "name"         -> PyStr("analysts")]

\* the twoFA and phone arguments in every combination
UserTwoFAArgs == { Update(ph, tf) : ph \in Opt("phone", Phones), tf \in Opt("twoFA", TwoFAs) }

\* one other argument of a user operation beside a phone
UserOtherArgs ==
    { Update([phone |-> PyInt(1234567890)], x) :
        x \in Opt("timezone", {PyStr("UTC"), PyStr("Mars/Olympus"), PyInt(5)})
              \cup Opt("groups", {PyList(<<UserGroup({"id", "access_level"}, 1)>>),
                                  PyList(<<UserGroup({"id", "access_level"}, 3)>>),
                                  PyList(<<UserGroup({"id"}, 1)>>),
                                  PyList(<<UserGroup({"access_level"}, 1)>>),
                                  PyList(<<UserGroup({"id", "access_level"}, 1),
                                           UserGroup({"id", "access_level"}, 2)>>),
                                  PyList(<<UserGroup({"id", "access_level"}, 2),
                                           UserGroup({"id", "access_level"}, 3)>>),
                                  PyList(<<UserGroup({"id", "access_level"}, 1),
                                           UserGroup({"id", "name"}, 1)>>),
                                  PyDict(UserGroup({"id", "access_level"}, 1)),
                                  PyInt(889),
                                  PyStr("analysts")})
              \cup Opt("autoShareTo", {PyDict(UserGroup({"id"}, 1)),
                                       PyList(<<UserGroup({"name"}, 1)>>),
                                       PyStr("analysts")})
              \cup Opt("contentFilters",
                       {PyList(<<Clause(Elems(CONTENT_FILTER_FIELDS), PyInt(2016), "=")>>),
                        PyList(<<Clause(Elems(CONTENT_FILTER_FIELDS), PyStr("AZ"), "==")>>)})
              \cup Opt("contentFilter",
                       {PyList(<<Clause(Elems(CONTENT_FILTER_FIELDS), PyStr("AZ"), "like")>>),
                        PyList(<<Clause({"fieldName", "values"}, PyStr("AZ"), "=")>>)})
              \cup Opt("userInviteJson",
                       {PyDict([userGroups |-> PyList(<<UserGroup({"id", "access_level"}, 1)>>)]),
                        PyDict([userGroups |-> PyList(<<UserGroup({"id", "name"}, 1)>>)])}) }

UsersCreateArgs ==
    { Update([email |-> PyStr("awesome.user@knowi.com"), password |-> PyStr("secret")], a) :
        a \in UserTwoFAArgs \cup UserOtherArgs }
    \cup { [email |-> PyStr("awesome.user@knowi.com"), phone |-> PyInt(1234567890)] }

UsersEditArgs ==
    { Update([userId |-> PyInt(7)], a) : a \in UserTwoFAArgs \cup UserOtherArgs }
    \cup { [phone |-> PyInt(1234567890)] }

\* ------------------------------------------------------------------------
\* client.py: the token accessor
\* ------------------------------------------------------------------------
\* session.headers.get(name) on a plain dict: the lookup is by the exact key
HeaderGetCaseSensitive(headers, name) ==
    IF name \in DOMAIN headers THEN PyStr(headers[name]) ELSE PyNone

\* session.headers.get(name): requests keeps the session's headers in a
\* CaseInsensitiveDict, so the lookup ignores the case of the name
HeaderGet(headers, name) ==
    IF \E k \in DOMAIN headers : Lower(k) = Lower(name)
    THEN PyStr(headers[CHOOSE k \in DOMAIN headers : Lower(k) = Lower(name)])
    ELSE PyNone

\* Knowi.getBearerToken: the requests it issues, the session's headers after
\* it, and what it returns or raises
BearerToken(f, h, cid, csec, headers, loginRsp) ==
    LET login == auth(h, cid, csec, headers, loginRsp)
        token(hs) == Return([NoVal EXCEPT !.data =
                        PyDict([Authorization |-> HeaderGet(hs, "authorization")])])
    IN  IF f # "mgmt"
        THEN [wire |-> <<>>, answers |-> <<>>, headers |-> headers, outcome |-> Return(NoVal)]
        ELSE IF Truthy(HeaderGet(headers, "authorization"))
        THEN [wire |-> <<>>, answers |-> <<>>, headers |-> headers, outcome |-> token(headers)]
        ELSE IF login.exc # ""
        THEN [wire |-> login.wire, answers |-> <<loginRsp>>, headers |-> login.headers,
              outcome |-> Raise(login.exc)]
        ELSE [wire |-> login.wire, answers |-> <<loginRsp>>, headers |-> login.headers,
              outcome |-> token(login.headers)]

\* client.getBearerToken
getBearerToken(loginRsp) ==
    LET r == BearerToken(flag, host, clientId, clientSecret, sessionHeaders, loginRsp)
    IN  /\ constructed
        /\ op = "none"
        /\ op' = "getBearerToken"
        /\ passed' = NoArgs
        /\ after' = NoArgs
        /\ wire' = r.wire
        /\ answers' = r.answers
        /\ disk' = {}
        /\ outcome' = r.outcome
        /\ sessionHeaders' = r.headers
        /\ UNCHANGED client

\* the application takes the Authorization entry off client.session.headers
\* (the session is a public attribute of the client); this is what leaves
\* the header absent for the token accessor
ClearSessionHeaders ==
    /\ constructed
    /\ op = "none"
    /\ flag = "mgmt"
    /\ "Authorization" \in DOMAIN sessionHeaders
    /\ sessionHeaders' = Without(sessionHeaders, {"Authorization"})
    /\ UNCHANGED <<client, op, passed, after, wire, answers, disk, outcome>>

\* ------------------------------------------------------------------------
\* client.py: dashboard_shareViaUrl
\* ------------------------------------------------------------------------
\* the keys of a record in the order the documented examples write them
KeyOrder == <<"fieldName", "values", "operator", "type", "access_level", "name", "id">>

\* json.dumps(v): a record of a list is a dict of Python values
RECURSIVE JsonDumps(_), JsonDumpsItems(_, _), JsonDumpsKeys(_, _, _)
JsonDumps(v) ==
    IF "t" \notin DOMAIN v THEN "{" \o JsonDumpsKeys(v, 1, TRUE) \o "}"
    ELSE CASE v.t = "NoneType" -> "null"
           [] v.t = "bool"     -> IF v.n = 1 THEN "true" ELSE "false"
           [] v.t = "int"      -> IntToStr(v.n)
           [] v.t = "str"      -> "\"" \o v.s \o "\""
           [] v.t = "list"     -> "[" \o JsonDumpsItems(v.items, 1) \o "]"
           [] v.t = "dict"     -> "{" \o JsonDumpsKeys(v.d, 1, TRUE) \o "}"

JsonDumpsItems(items, i) ==
    IF i > Len(items) THEN ""
    ELSE (IF i > 1 THEN ", " ELSE "") \o JsonDumps(items[i]) \o JsonDumpsItems(items, i + 1)

JsonDumpsKeys(d, i, first) ==
    IF i > Len(KeyOrder) THEN ""
    ELSE IF KeyOrder[i] \notin DOMAIN d THEN JsonDumpsKeys(d, i + 1, first)
    ELSE (IF first THEN "" ELSE ", ") \o "\"" \o KeyOrder[i] \o "\": " \o JsonDumps(d[KeyOrder[i]])
             \o JsonDumpsKeys(d, i + 1, FALSE)

\* `fullRsp['fullUrl'] = self.host + prefix + fullRsp['data'][field]`
WithFullUrl(h, prefix, field, got) ==
    LET data == got.val.data
    IN  IF got.kind # "return" THEN got
        ELSE IF data.t # "dict" THEN Raise("TypeError")
        ELSE IF field \notin DOMAIN data.d THEN Raise("KeyError")
        ELSE Return([data |-> data, headers |-> got.val.headers,
                     statusCode |-> got.val.statusCode,
                     fullUrl |-> PyStr(h \o prefix \o StrOf(data.d[field]))])

\* the api_call of dashboard_shareViaUrl and what the method makes of its
\* result: k is what the validator passed on, shareType the share type
ShareViaUrlRequest(k, shareType, r) ==
    IF ~Truthy(GetOr(k, "fullUrl", PyBool(FALSE))) THEN r
    ELSE IF shareType = PyStr("simple")
    THEN [r EXCEPT !.outcome = WithFullUrl(host, "/d/", "shareUrl", r.outcome)]
    ELSE [r EXCEPT !.outcome = WithFullUrl(host, "/share/secure/", "secureShareUrl", r.outcome)]

\* dashboard_shareViaUrl behind its validator, whose result is v
ShareViaUrlValidated(given, v, shareType, rsp) ==
    FacadeCall("dashboard_shareViaUrl", given, v.left, v.exc,
               IF Missing(given, {"dashboardId"}) # "" THEN "TypeError"
               ELSE IF shareType \notin {PyStr("simple"), PyStr("secure")} THEN "ValueError"
               ELSE "",
               ShareViaUrlRequest(v.kwargs, shareType,
                   api_call("/dashboards/" \o StrOf(Get(given, "dashboardId")) \o "/"
                                \o (IF shareType = PyStr("simple") THEN "share/url"
                                    ELSE "share/url/secure"),
                            "POST", PyNone,
                            PyDict(Update(Without(v.kwargs, {"dashboardId", "shareType",
                                                             "contentFilters", "fullUrl"}),
                                          [c \in {"contentFilters"} |->
                                              PyStr(JsonDumps(Get(v.kwargs, "contentFilters")))])),
                            PyNone, PyNone, rsp)))

\* client.dashboard_shareViaUrl(**given)
dashboard_shareViaUrl(given, rsp) ==
    ShareViaUrlValidated(given, validateUserParams(given),
                         GetOr(given, "shareType", PyStr("simple")), rsp)

ShareViaUrlArgs ==
    { Update([dashboardId |-> PyInt(7)], Update(st, Update(fu, cf))) :
        st \in Opt("shareType", {PyStr("simple"), PyStr("secure"), PyStr("public")}),
        fu \in Opt("fullUrl", {PyBool(TRUE)}),
        cf \in Opt("contentFilters",
                   {PyList(<<Clause(Elems(CONTENT_FILTER_FIELDS), PyInt(2016), "=")>>),
                    PyList(<<Clause(Elems(CONTENT_FILTER_FIELDS), PyStr("AZ"), "==")>>)}) }

ShareUrlResponses ==
    FacadeResponses
    \cup { Response(200, "{\"secureShareUrl\": \"xyz\"}",
                    Json(PyDict([secureShareUrl |-> PyStr("xyz")])), EmptyDict),
           Response(200, "OK", NotJson, EmptyDict) }

\* ------------------------------------------------------------------------
\* decorators.py / client.py: the query validator, query_create, query_edit
\* ------------------------------------------------------------------------
\* isinstance(v, bool)
IsInstanceBool(v) == v.t = "bool"

\* validateQueryParams.wrapper up to the call of the wrapped function: the
\* exception raised ("" when none); the isinstance of the direct block is
\* applied to the string literal "direct", as the source writes it
validateQueryParams(kwargs) ==
    LET queryProperty == Get(kwargs, "queryProperty")
    IN  IF queryProperty.t # "dict" THEN "AttributeError"
        ELSE IF /\ Truthy(Get(queryProperty.d, "categories"))
                /\ Get(queryProperty.d, "categories").t # "list"
        THEN "KnowiException"
        ELSE IF /\ Truthy(Get(queryProperty.d, "direct"))
                /\ ~IsInstanceBool(PyStr("direct"))
        THEN "KnowiException"
        ELSE ""

\* client.query_create(**given)
query_create(given, rsp) ==
    LET qp     == Get(given, "queryProperty").d
        kwargs == Update(Without(given, {"datasourceId", "queryName", "queryProperty"}),
                    [properties |-> PyDict(
                        [c9QLFilter      |-> GetOr(qp, "c9QLFilter", PyStr("select *")),
                         categories      |-> Get(qp, "categories"),
                         datasourceId    |-> Get(given, "datasourceId"),
                         description     |-> Get(qp, "description"),
                         direct          |-> GetOr(qp, "direct", PyBool(FALSE)),
                         dsName          |-> Get(qp, "dsName"),
                         entityName      |-> Get(given, "queryName"),
                         queryStr        |-> PyStr(StrOf(Get(qp, "queryStr"))),
                         triggered       |-> Get(qp, "triggered"),
                         overrideVals    |-> GetOr(qp, "overrideVals", PyStr("All")),
                         c9ExportDataset |-> Get(qp, "c9ExportDataset")]),
                     runNow     |-> GetOr(qp, "runNow", PyBool(TRUE)),
                     drafted    |-> Get(qp, "drafted")])
        r      == api_call("/queries", "POST", PyNone, PyNone, PyNone, PyDict(kwargs), rsp)
    IN  FacadeCall("query_create", given, given, validateQueryParams(given), "", r)

\* client.query_edit(**given)
query_edit(given, rsp) ==
    LET qp     == Get(given, "queryProperty").d
        kwargs == Update(Without(given, {"queryId", "datasourceId", "queryProperty"}),
                    [properties |-> PyDict(
                        [c9QLFilter      |-> Get(qp, "c9QLFilter"),
                         categories      |-> Get(qp, "categories"),
                         datasourceId    |-> Get(given, "datasourceId"),
                         description     |-> Get(qp, "description"),
                         direct          |-> Get(qp, "direct"),
                         dsName          |-> Get(qp, "dsName"),
                         entityName      |-> Get(qp, "entityName"),
                         queryStr        |-> PyStr(StrOf(Get(qp, "queryStr"))),
                         triggered       |-> Get(qp, "triggered"),
                         overrideVals    |-> GetOr(qp, "overrideVals", PyStr("All")),
                         c9ExportDataset |-> Get(qp, "c9ExportDataset")]),
                     runNow     |-> GetOr(qp, "runNow", PyBool(TRUE)),
                     drafted    |-> Get(qp, "drafted")])
        r      == api_call("/queries/" \o StrOf(Get(given, "queryId")), "PUT",
                           PyNone, PyNone, PyNone, PyDict(kwargs), rsp)
    IN  FacadeCall("query_edit", given, given, validateQueryParams(given), "", r)

QueryProperties ==
    { PyDict(Update([queryStr |-> PyStr("select 1")], Update(d, c))) :
        d \in Opt("direct", {PyBool(FALSE), PyBool(TRUE), PyInt(0), PyInt(1), PyStr("yes")}),
        c \in Opt("categories", {PyList(<<PyInt(123)>>), PyStr("123")}) }

QueryCreateArgs ==
    { [datasourceId |-> PyInt(5), queryName |-> PyStr("sales"), queryProperty |-> qp] :
        qp \in QueryProperties }
    \cup { [datasourceId |-> PyInt(5), queryName |-> PyStr("sales")] }

QueryEditArgs ==
    { [queryId |-> PyInt(9), datasourceId |-> PyInt(5), queryProperty |-> qp] :
        qp \in QueryProperties }
    \cup { [queryId |-> PyInt(9)] }

\* ------------------------------------------------------------------------
\* client.py: dashboard_hashContentFilters
\* ------------------------------------------------------------------------
\* client.dashboard_hashContentFilters(**given), behind its validator; the
\* arguments are passed by keyword
dashboard_hashContentFilters(given, rsp) ==
    FacadeCall("dashboard_hashContentFilters", given, validateUserParams(given).left,
               validateUserParams(given).exc,
               Missing(given, {"dashboardId"}),
               api_call("/dashboards/" \o StrOf(Get(given, "dashboardId"))
                            \o "/share/url/secure/hash",
                        "POST", PyNone,
                        PyDict(Update(Without(validateUserParams(given).kwargs,
                                              {"dashboardId", "contentFilters"}),
                                      [c \in {"contentFilters"} |->
                                          PyStr(JsonDumps(Get(validateUserParams(given).kwargs,
                                                              "contentFilters")))])),
                        PyNone, PyNone, rsp))

GoodFilters == PyList(<<Clause(Elems(CONTENT_FILTER_FIELDS), PyList(<<PyStr("AZ")>>), "=")>>)

\* filters with a clause that lacks a field, or whose operator is not accepted
BadFilters ==
    { PyList(<<Clause({"fieldName", "values"}, PyList(<<PyStr("AZ")>>), "=")>>),
      PyList(<<Clause(Elems(CONTENT_FILTER_FIELDS), PyList(<<PyStr("AZ")>>), "==")>>) }

\* filters under contentFilters, under contentFilter, and under both keys
HashContentFiltersArgs ==
    { Update([dashboardId |-> PyInt(7)], Update(a, b)) :
        a \in Opt("contentFilters", {GoodFilters, PyList(<<>>)} \cup BadFilters),
        b \in Opt("contentFilter", {GoodFilters, PyList(<<>>)} \cup BadFilters) }
    \cup { EmptyDict }

\* ------------------------------------------------------------------------
\* client.py: dashboard_edit, widget_edit
\* ------------------------------------------------------------------------
\* the categories passed on as the caller gave them
CategoriesAsGiven(categories) == categories

\* `[] if not categories else categories`
CategoriesOrEmpty(categories) ==
    IF ~Truthy(categories) THEN PyList(<<>>) ELSE categories

\* client.dashboard_edit(**given)
dashboard_edit(given, rsp) ==
    FacadeCall("dashboard_edit", given, given, "", Missing(given, {"dashboardId", "newName"}),
               api_call("/dashboards/" \o StrOf(Get(given, "dashboardId")), "PUT",
                        PyNone, PyNone, PyNone,
                        PyDict(Update(Without(given, {"dashboardId", "newName", "categories"}),
                                      [dashName   |-> Get(given, "newName"),
                                       categories |-> CategoriesOrEmpty(Get(given, "categories"))])),
                        rsp))

\* client.widget_edit(**given)
widget_edit(given, rsp) ==
    FacadeCall("widget_edit", given, given, "", Missing(given, {"widgetId"}),
               api_call("/widgets/" \o StrOf(Get(given, "widgetId")), "PUT",
                        PyNone, PyNone, PyNone,
                        PyDict(Update(Without(given, {"widgetId", "categories", "widgetType",
                                                      "chartProps"}),
                                      [widgetName      |-> Get(given, "widgetName"),
                                       categories      |-> CategoriesOrEmpty(Get(given, "categories")),
                                       widgetType      |-> Get(given, "widgetType"),
                                       chartProperties |-> Get(given, "chartProps")])),
                        rsp))

DashboardEditArgs ==
    { Update([dashboardId |-> PyInt(7), newName |-> PyStr("Sales")], c) :
        c \in Opt("categories", {PyNone, PyList(<<>>), PyList(<<PyInt(3)>>)}) }
    \cup { [dashboardId |-> PyInt(7)] }

WidgetEditArgs ==
    { Update([widgetId |-> PyInt(9)], Update(c, Update(n, Update(t, p)))) :
        c \in Opt("categories", {PyNone, PyList(<<>>), PyList(<<PyInt(3)>>)}),
        n \in Opt("widgetName", {PyStr("Revenue")}),
        t \in Opt("widgetType", {PyInt(2), PyNone}),
        p \in Opt("chartProps", {PyDict([name |-> PyStr("bar")])}) }
    \cup { EmptyDict }

\* ------------------------------------------------------------------------
\* client.py: the SSO user operations
\* ------------------------------------------------------------------------
\* `json.dumps(userFilters) if userFilters else []`
DumpedFilters(userFilters) ==
    IF Truthy(userFilters) THEN PyStr(JsonDumps(userFilters)) ELSE PyList(<<>>)

\* sso_createNewUser behind its validator, whose result is v, and the form
\* it sends
SsoCreateNewUserValidated(given, v, rsp) ==
    FacadeCall("sso_createNewUser", given, v.left, v.exc, Missing(given, {"email"}),
               api_call("/sso/user/create", "POST", PyNone,
                        PyDict(Update(
                            Without(v.kwargs, {"email", "userGroups", "userFilters", "updateUser"}),
                            [f \in {"user", "ssoCustomerToken", "userGroups[]", "role",
                                    "contentFilter", "refresh"} |->
                                CASE f = "user"             -> Get(v.kwargs, "email")
                                  [] f = "ssoCustomerToken" -> ssoCustomerToken
                                  [] f = "userGroups[]"     ->
                                         IF Truthy(Get(v.kwargs, "userGroups"))
                                         THEN v.kwargs["userGroups"] ELSE PyList(<<>>)
                                  [] f = "role"             -> GetOr(v.kwargs, "role", PyStr("user"))
                                  [] f = "contentFilter"    ->
                                         DumpedFilters(Get(v.kwargs, "userFilters"))
                                  [] f = "refresh"          ->
                                         GetOr(v.kwargs, "updateUser", PyBool(FALSE))])),
                        PyNone, PyNone, rsp))

\* client.sso_createNewUser(**given)
sso_createNewUser(given, rsp) ==
    SsoCreateNewUserValidated(given, validateUserParams(given), rsp)

\* client.sso_updateUserContentFilters(**given), behind its validator, and
\* the form it sends
sso_updateUserContentFilters(given, rsp) ==
    FacadeCall("sso_updateUserContentFilters", given, validateUserParams(given).left,
               validateUserParams(given).exc, Missing(given, {"email", "userFilters"}),
               api_call("/sso/user/contentfilters/update", "POST", PyNone,
                        PyDict(Update(
                            Without(validateUserParams(given).kwargs, {"email", "userFilters"}),
                            [ssoCustomerToken |-> ssoCustomerToken,
                             user             |-> Get(validateUserParams(given).kwargs, "email"),
                             contentFilter    |->
                                 DumpedFilters(Get(validateUserParams(given).kwargs,
                                                   "userFilters"))])),
                        PyNone, PyNone, rsp))

\* filters under userFilters, beside an optional list under contentFilters
SsoUserArgs ==
    { Update([email |-> PyStr("awesome.user@knowi.com")], Update(a, b)) :
        a \in Opt("userFilters", {GoodFilters, PyList(<<>>), PyNone} \cup BadFilters),
        b \in Opt("contentFilters", BadFilters) }
    \cup { [userFilters |-> GoodFilters] }

\* ------------------------------------------------------------------------
\* client.py: the groups of a user
\* ------------------------------------------------------------------------
\* client.group_createGroupForUser(**given)
group_createGroupForUser(given, rsp) ==
    FacadeCall("group_createGroupForUser", given, given, "",
               Missing(given, {"groupName", "userId"}),
               api_call("/users" \o StrOf(Get(given, "userId")) \o "/groups", "POST",
                        PyNone, PyNone, PyNone,
                        PyDict(Update(Without(given, {"groupName", "userId"}),
                                      [groupName |-> Get(given, "groupName")])),
                        rsp))

\* client.group_editGroupForUser(**given)
group_editGroupForUser(given, rsp) ==
    FacadeCall("group_editGroupForUser", given, given, "",
               Missing(given, {"userId", "groupId", "newGroupName"}),
               api_call("users/" \o StrOf(Get(given, "userId")) \o "/groups/"
                            \o StrOf(Get(given, "groupId")),
                        "PUT", PyNone,
                        PyDict(Update(Without(given, {"userId", "groupId", "newGroupName"}),
                                      [groupName |-> Get(given, "newGroupName")])),
                        PyNone, PyNone, rsp))

GroupCreateForUserArgs ==
    { Update([userId |-> u, groupName |-> g], x) :
        u \in {PyInt(7), PyInt(42)}, g \in {PyStr("analysts"), PyInt(2024)},
        x \in {EmptyDict, [description |-> PyNone]} }
    \cup { [groupName |-> PyStr("analysts")] }

GroupEditForUserArgs ==
    { Update([userId |-> u, groupId |-> PyInt(3), newGroupName |-> g], x) :
        u \in {PyInt(7), PyInt(42)}, g \in {PyStr("analysts"), PyInt(2024)},
        x \in {EmptyDict, [description |-> PyNone]} }
    \cup { [userId |-> PyInt(7), groupId |-> PyInt(3)] }

\* ------------------------------------------------------------------------
\* client.py: dashboard_create, dashboard_clone
\* ------------------------------------------------------------------------
\* the two size lines of dashboard_create and dashboard_clone; both
\* conditions test "screenWidth", and kwargs['screenHeight'] on a dict
\* without that key raises KeyError
ScreenSize(kwargs) ==
    [width  |-> IF "screenWidth" \in DOMAIN kwargs THEN kwargs["screenWidth"] ELSE PyInt(1000),
     height |-> IF "screenWidth" \in DOMAIN kwargs THEN Get(kwargs, "screenHeight")
                ELSE PyInt(800),
     exc    |-> IF "screenWidth" \in DOMAIN kwargs /\ "screenHeight" \notin DOMAIN kwargs
                THEN "KeyError" ELSE ""]

\* client.dashboard_create(**given)
dashboard_create(given, rsp) ==
    FacadeCall("dashboard_create", given, given, "",
               FirstExc(<<Missing(given, {"dashboardName"}),
                          ScreenSize(Without(given, {"dashboardName"})).exc>>),
               api_call("/dashboards", "POST", PyNone, PyNone, PyNone,
                        PyDict(Update(Without(given, {"dashboardName"}),
                            [dashName     |-> Get(given, "dashboardName"),
                             screenWidth  |-> ScreenSize(Without(given, {"dashboardName"})).width,
                             screenHeight |-> ScreenSize(Without(given, {"dashboardName"})).height])),
                        rsp))

\* client.dashboard_clone(**given)
dashboard_clone(given, rsp) ==
    FacadeCall("dashboard_clone", given, given, "",
               FirstExc(<<Missing(given, {"dashboardId", "clonedName"}),
                          ScreenSize(Without(given, {"dashboardId", "clonedName"})).exc>>),
               api_call("/dashboards/" \o StrOf(Get(given, "dashboardId")), "POST",
                        PyNone, PyNone, PyNone,
                        PyDict(Update(Without(given, {"dashboardId", "clonedName"}),
                            [dashName     |-> Get(given, "clonedName"),
                             screenWidth  |->
                                 ScreenSize(Without(given, {"dashboardId", "clonedName"})).width,
                             screenHeight |->
                                 ScreenSize(Without(given, {"dashboardId", "clonedName"})).height])),
                        rsp))

\* the two sizes, each passed or left out
ScreenArgs ==
    { Update(w, h) : w \in Opt("screenWidth", {PyInt(1280), PyInt(1000)}),
                     h \in Opt("screenHeight", {PyInt(720), PyInt(800)}) }

DashboardCreateArgs ==
    { Update([dashboardName |-> PyStr("Sales")], s) : s \in ScreenArgs }
    \cup { [screenWidth |-> PyInt(1280)] }

DashboardCloneArgs ==
    { Update([dashboardId |-> PyInt(7), clonedName |-> PyStr("Sales copy")], s) : s \in ScreenArgs }
    \cup { [dashboardId |-> PyInt(7)] }

\* the caller has taken the outcome of the last call; the record of it is dropped
Forget ==
    /\ op # "none"
    /\ op' = "none"
    /\ passed' = NoArgs
    /\ after' = NoArgs
    /\ wire' = <<>>
    /\ answers' = <<>>
    /\ disk' = {}
    /\ outcome' = NoOutcome
    /\ UNCHANGED <<client, sessionHeaders>>

Next ==
    \/ \E h \in Hosts, a \in ConstructorArgs, loginRsp \in LoginResponses :
            Construct(h, a.clientId, a.clientSecret, a.customerToken, a.flag, loginRsp)
    \/ \E c \in ApiCallArgs : ApiCall(c[1][1], c[1][2], c[2][1], c[2][2], c[2][3], c[3])
    \/ \E cf \in ContentFilterArgs : ValidateContentFilters(cf)
    \/ \E id \in DashboardIds, c \in ShareCalls :
            dashboard_shareToUserGroups(id, c[1], c[2], c[3])
    \/ \E a \in CategoryListArgs, rsp \in FacadeResponses : category_list(a, rsp)
    \/ \E a \in CategoryCreateArgs, rsp \in FacadeResponses : category_create(a, rsp)
    \/ \E a \in CategoryShareArgs, rsp \in FacadeResponses : category_shareToUserGroups(a, rsp)
    \/ \E a \in UsersCreateArgs, rsp \in FacadeResponses : users_create(a, rsp)
    \/ \E a \in UsersEditArgs, rsp \in FacadeResponses : users_edit(a, rsp)
    \/ \E a \in ShareViaUrlArgs, rsp \in ShareUrlResponses : dashboard_shareViaUrl(a, rsp)
    \/ \E a \in QueryCreateArgs, rsp \in FacadeResponses : query_create(a, rsp)
    \/ \E a \in QueryEditArgs, rsp \in FacadeResponses : query_edit(a, rsp)
    \/ \E a \in HashContentFiltersArgs, rsp \in FacadeResponses :
            dashboard_hashContentFilters(a, rsp)
    \/ \E a \in DashboardEditArgs, rsp \in FacadeResponses : dashboard_edit(a, rsp)
    \/ \E a \in WidgetEditArgs, rsp \in FacadeResponses : widget_edit(a, rsp)
    \/ \E a \in SsoUserArgs, rsp \in FacadeResponses : sso_createNewUser(a, rsp)
    \/ \E a \in SsoUserArgs, rsp \in FacadeResponses : sso_updateUserContentFilters(a, rsp)
    \/ \E a \in GroupCreateForUserArgs, rsp \in FacadeResponses : group_createGroupForUser(a, rsp)
    \/ \E a \in GroupEditForUserArgs, rsp \in FacadeResponses : group_editGroupForUser(a, rsp)
    \/ \E a \in DashboardCreateArgs, rsp \in FacadeResponses : dashboard_create(a, rsp)
    \/ \E a \in DashboardCloneArgs, rsp \in FacadeResponses : dashboard_clone(a, rsp)
    \/ \E loginRsp \in LoginResponses : getBearerToken(loginRsp)
    \/ ClearSessionHeaders
    \/ Forget

Spec == Init /\ [][Next]_vars

\* ------------------------------------------------------------------------
\* Properties
\* ------------------------------------------------------------------------
Called(name) == op = name

Sent == wire # <<>>

\* C1: construction with flag='mgmt' and a missing/empty clientId or
\* clientSecret, with flag='sso' and a missing/empty customerToken, or with
\* any other flag, raises the configuration error, issues no HTTP request
\* (no login) and leaves no client.
BadConfiguration(a) ==
    \/ a.flag \notin {"mgmt", "sso"}
    \/ a.flag = "mgmt" /\ (~Truthy(a.clientId) \/ ~Truthy(a.clientSecret))
    \/ a.flag = "sso" /\ ~Truthy(a.customerToken)

C1_BadConfigurationRejected ==
    (Called("Knowi") /\ BadConfiguration(passed))
        => /\ outcome.kind = "raise"
           /\ outcome.exc = "KnowiException"
           /\ ~Sent
           /\ ~constructed

C1_Witness ==
    /\ Called("Knowi")
    /\ passed.flag = "mgmt"
    /\ passed.clientId = PyStr("k3y")
    /\ passed.clientSecret = PyNone
    /\ outcome.exc = "KnowiException"

\* C2: an api_call in management mode with an SSO-prefixed path, or in SSO
\* mode with a path that is not SSO-prefixed, raises the mode-mismatch error
\* and sends no HTTP request.
SsoPrefixed(apiMethod) == StartsWith(apiMethod, "/sso/")

C2_ModeMismatchRejected ==
    (/\ Called("api_call")
     /\ \/ flag = "mgmt" /\ SsoPrefixed(passed.apiMethod)
        \/ flag = "sso" /\ ~SsoPrefixed(passed.apiMethod))
        => /\ outcome.kind = "raise"
           /\ outcome.exc = "KnowiException"
           /\ ~Sent

\* C4: an api_call given a single data or json payload transmits it without
\* the keys whose value is null, with the keys whose value is an empty list
\* (still the empty list), and with every other key unchanged.
SinglePayload(a) ==
    \/ a.data.t = "dict" /\ a.json.t = "NoneType"
    \/ a.json.t = "dict" /\ a.data.t = "NoneType"

StrippedOfNulls(given, sent) ==
    /\ sent.t = "dict"
    /\ DOMAIN sent.d \subseteq DOMAIN given.d
    /\ \A k \in DOMAIN given.d :
          IF given.d[k].t = "NoneType"
          THEN k \notin DOMAIN sent.d
          ELSE k \in DOMAIN sent.d /\ sent.d[k] = given.d[k]

C4_NullKeysStripped ==
    (Called("api_call") /\ Sent /\ SinglePayload(passed))
        => IF passed.data.t = "dict"
           THEN StrippedOfNulls(passed.data, wire[1].data) /\ wire[1].json = PyNone
           ELSE StrippedOfNulls(passed.json, wire[1].json) /\ wire[1].data = PyNone

C4_Witness ==
    /\ Called("api_call")
    /\ Sent
    /\ passed.data = PyNone
    /\ passed.json = PyDict([a |-> PyNone, b |-> PyList(<<>>)])
    /\ wire[1].json = PyDict([b \in {"b"} |-> PyList(<<>>)])

\* C5: a dispatched request answered with a non-success status raises a
\* KnowiApiException whose status is the response's status code and whose
\* message is the JSON body's `message` field when the body is JSON with that
\* field, else the raw body text; no envelope is returned.
BestEffortMessage(rsp) ==
    IF rsp.json.valid /\ rsp.json.v.t = "dict" /\ "message" \in DOMAIN rsp.json.v.d
    THEN rsp.json.v.d["message"]
    ELSE PyStr(rsp.text)

C5_ApiErrorCarriesStatusAndMessage ==
    (Called("api_call") /\ Sent /\ ~Ok(answers[1]))
        => /\ outcome.kind = "raise"
           /\ outcome.exc = "KnowiApiException"
           /\ Status(outcome) = answers[1].status_code
           /\ Message(outcome) = [exc |-> "", value |-> BestEffortMessage(answers[1])]

\* C6 as stated: a dispatched request answered with a success status returns
\* the download confirmation naming the content-disposition file when the
\* resolved URL ends in '/pdf', and otherwise the envelope whose data is the
\* decoded JSON body, or the raw text when the body is not JSON.
\* the text of a header after its first '=' and before its next one, unquoted
RECURSIVE Scan(_, _, _)
Scan(h, i, seen) ==
    IF i > Len(h) THEN ""
    ELSE LET c == SubSeq(h, i, i)
         IN  IF c = "=" THEN (IF seen THEN "" ELSE Scan(h, i + 1, TRUE))
             ELSE IF seen /\ c # "\"" THEN c \o Scan(h, i + 1, seen)
             ELSE Scan(h, i + 1, seen)

HasEquals(h) == \E i \in 1..Len(h) : SubSeq(h, i, i) = "="

Envelope(rsp) ==
    [data |-> IF rsp.json.valid THEN rsp.json.v ELSE PyStr(rsp.text),
     headers |-> rsp.headers, statusCode |-> rsp.status_code]

Confirmation(rsp) ==
    [data |-> PyStr(Scan(rsp.headers["content-disposition"], 1, FALSE) \o " downloaded"),
     headers |-> rsp.headers, statusCode |-> rsp.status_code]

NamesAFile(rsp) ==
    /\ "content-disposition" \in DOMAIN rsp.headers
    /\ HasEquals(rsp.headers["content-disposition"])
    /\ Scan(rsp.headers["content-disposition"], 1, FALSE) # ""

C6_SuccessResultAsStated ==
    (Called("api_call") /\ Sent /\ Ok(answers[1]))
        => IF EndsWith(wire[1].url, "/pdf")
           THEN /\ outcome.kind = "return"
                /\ "content-disposition" \in DOMAIN answers[1].headers
                /\ outcome.val = Confirmation(answers[1])
           ELSE outcome = Return(Envelope(answers[1]))

\* C6 amended: as stated when the response carries a content-disposition
\* header with an '=' and a name after it (the name being the text between
\* the first '=' and the next, double quotes removed), the file of that name
\* being written; with the header absent or without '=' (or without a name)
\* the call raises and returns nothing.
C6_SuccessResult ==
    (Called("api_call") /\ Sent /\ Ok(answers[1]))
        => IF ~EndsWith(wire[1].url, "/pdf")
           THEN outcome = Return(Envelope(answers[1])) /\ disk = {}
           ELSE IF NamesAFile(answers[1])
           THEN /\ outcome = Return(Confirmation(answers[1]))
                /\ disk = {Scan(answers[1].headers["content-disposition"], 1, FALSE)}
           ELSE /\ outcome.kind = "raise"
                /\ outcome.exc \in {"KeyError", "IndexError", "FileNotFoundError"}
                /\ disk = {}

C6_Witness ==
    /\ Called("api_call")
    /\ Sent
    /\ EndsWith(wire[1].url, "/export/pdf")
    /\ outcome.kind = "return"
    /\ outcome.val.data = PyStr("report.pdf downloaded")
    /\ disk = {"report.pdf"}

\* C7: for a non-empty list of content-filter clauses, validation fails when
\* any clause lacks fieldName, values or operator; and every well-formed
\* clause the validator reaches has, afterwards, a scalar `values` replaced by
\* the one-element list of its string form and a list `values` unchanged
\* (all of them when validation passes).
WellFormedClause(c) == {"fieldName", "values", "operator"} \subseteq DOMAIN c

NonEmptyList(v) == v.t = "list" /\ v.items # <<>>

StringForm(v) ==
    IF v.t = "int" THEN IntToStr(v.n) ELSE IF v.t = "NoneType" THEN "None" ELSE v.s

ClauseAsValidated(c) ==
    IF c["values"].t = "list" THEN c
    ELSE [c EXCEPT !["values"] = PyList(<<PyStr(StringForm(c["values"]))>>)]

ClausePasses(c) ==
    /\ WellFormedClause(c)
    /\ c["operator"].s \in {"=", "!=", ">", ">=", "<", "<=", "like", "not like",
                            "equals", "not equals", "greater than",
                            "greater than or equals", "less than",
                            "less than or equals", "contains", "does not contain"}

C7_ClausesCheckedAndCoerced ==
    (Called("_validateContentFilters") /\ NonEmptyList(passed.contentFilter))
        => LET given == passed.contentFilter.items
               left  == after.contentFilter.items
           IN  /\ (\E i \in DOMAIN given : ~WellFormedClause(given[i]))
                     => outcome.kind = "raise" /\ outcome.exc = "KnowiException"
               /\ Len(left) = Len(given)
               /\ \A i \in DOMAIN given :
                     (WellFormedClause(given[i]) /\ \A j \in 1..(i - 1) : ClausePasses(given[j]))
                         => left[i] = ClauseAsValidated(given[i])
               /\ outcome.kind = "return"
                     => \A i \in DOMAIN given : left[i] = ClauseAsValidated(given[i])

C7_Witness ==
    /\ Called("_validateContentFilters")
    /\ outcome.kind = "return"
    /\ Len(passed.contentFilter.items) = 2
    /\ passed.contentFilter.items[1]["values"] = PyInt(2016)
    /\ after.contentFilter.items[1]["values"] = PyList(<<PyStr("2016")>>)
    /\ after.contentFilter.items[2]["values"] = PyList(<<PyStr("AZ")>>)

\* C8: a list of well-formed content-filter clauses passes validation exactly
\* when every operator is one of the symbolic or named forms, compared
\* case-sensitively; any other operator fails it.
C8_OperatorsClosedSet ==
    (/\ Called("_validateContentFilters")
     /\ NonEmptyList(passed.contentFilter)
     /\ \A i \in DOMAIN passed.contentFilter.items :
           WellFormedClause(passed.contentFilter.items[i]))
        => IF \A i \in DOMAIN passed.contentFilter.items :
                 ClausePasses(passed.contentFilter.items[i])
           THEN outcome.kind = "return"
           ELSE outcome.kind = "raise" /\ outcome.exc = "KnowiException"

C8_Witness ==
    /\ Called("_validateContentFilters")
    /\ Len(passed.contentFilter.items) = 1
    /\ WellFormedClause(passed.contentFilter.items[1])
    /\ passed.contentFilter.items[1]["operator"] = PyStr("LIKE")
    /\ outcome.kind = "raise"

\* C3: when a parameter validator rejects a call, no HTTP request has been
\* issued and the caller's argument records are exactly as they were passed.
C3_RejectionLeavesArgumentsAsPassed ==
    (outcome.kind = "raise" /\ outcome.at = "validator")
        => ~Sent /\ after = passed

\* C9: in a share operation, a share target whose type is any case variant
\* of "users" or "groups" is dispatched with type "Users" or "Groups"
\* (targets that are complete but for the case of their type are accepted
\* and normalized), and a target with no access_level, or one outside
\* {1, 2}, fails validation.
CaseVariant(t) == "type" \in DOMAIN t /\ Lower(t["type"].s) \in {"users", "groups"}

TitleCased(t) == IF Lower(t["type"].s) = "users" THEN PyStr("Users") ELSE PyStr("Groups")

LevelMissingOrInvalid(t) ==
    "access_level" \notin DOMAIN t \/ t["access_level"] \notin {PyInt(1), PyInt(2)}

CompleteTarget(t) ==
    /\ CaseVariant(t)
    /\ ~LevelMissingOrInvalid(t)
    /\ Lower(t["type"].s) = "users" => "name" \in DOMAIN t
    /\ Lower(t["type"].s) = "groups" => "id" \in DOMAIN t

RejectedByValidator == outcome.kind = "raise" /\ outcome.at = "validator" /\ ~Sent

C9_ShareTargetsNormalized ==
    (Called("dashboard_shareToUserGroups") /\ NonEmptyList(passed["shareProperty"]))
        => LET given == passed["shareProperty"].items
               left  == after["shareProperty"].items
           IN  /\ (\E i \in DOMAIN given : LevelMissingOrInvalid(given[i]))
                     => RejectedByValidator
               /\ (\A i \in DOMAIN given : CompleteTarget(given[i]))
                     => /\ ~RejectedByValidator
                        /\ \A i \in DOMAIN given :
                              left[i] = [given[i] EXCEPT !["type"] = TitleCased(given[i])]
               /\ Sent => /\ wire[1].json.d["shareProperties"] = PyList(left)
                          /\ \A i \in DOMAIN left :
                                left[i]["type"] \in {PyStr("Users"), PyStr("Groups")}

C9_Witness ==
    /\ Called("dashboard_shareToUserGroups")
    /\ Sent
    /\ Len(passed["shareProperty"].items) = 2
    /\ passed["shareProperty"].items[1]["type"] = PyStr("gRoUpS")
    /\ wire[1].json.d["shareProperties"].items[1]["type"] = PyStr("Groups")
    /\ wire[1].json.d["shareProperties"].items[2]["type"] = PyStr("Users")

\* C10: for every share target in a list given under shareProperty or under
\* userGroups: a target without type, a Users target without name, a Groups
\* target without id, or a target whose normalized type is neither Users nor
\* Groups makes the whole call fail (it raises and nothing is sent).
FailingTarget(t) ==
    \/ "type" \notin DOMAIN t
    \/ ~CaseVariant(t)
    \/ Lower(t["type"].s) = "users" /\ "name" \notin DOMAIN t
    \/ Lower(t["type"].s) = "groups" /\ "id" \notin DOMAIN t

C10_FailingTargetFailsTheCall ==
    Called("dashboard_shareToUserGroups")
        => \A key \in {"shareProperty", "userGroups"} \cap DOMAIN passed :
              (passed[key].t = "list" /\ \E i \in DOMAIN passed[key].items :
                                            FailingTarget(passed[key].items[i]))
                  => outcome.kind = "raise" /\ ~Sent

\* C11: a category operation called without assetType, or with a value that
\* is none of 1, 2 and 4 (compared as Python compares: True equals 1), is
\* rejected by the asset-type check before the wrapped operation runs and
\* before any request; with assetType 1, 2 or 4 the check passes and the
\* wrapped operation runs (in management mode its request, which names the
\* asset type, is sent unless the share validator rejects the targets).
CategoryOps == {"category_list", "category_create", "category_shareToUserGroups"}

RecognizedAssetKind(v) == v.t \in {"int", "bool"} /\ v.n \in {1, 2, 4}

AssetKindSent(req) ==
    IF op = "category_list" THEN req.params.d["objectType"].n \in {1, 2, 4}
    ELSE \E n \in {"1", "2", "4", "True"} : EndsWith(req.url, "objectType=" \o n)

C11_AssetTypeChecked ==
    op \in CategoryOps
        => IF "assetType" \in DOMAIN passed /\ RecognizedAssetKind(passed["assetType"])
           THEN /\ RejectedByValidator
                     => /\ op = "category_shareToUserGroups"
                        /\ \E i \in DOMAIN passed["shareProperty"].items :
                              \/ FailingTarget(passed["shareProperty"].items[i])
                              \/ LevelMissingOrInvalid(passed["shareProperty"].items[i])
                /\ (flag = "mgmt" /\ ~RejectedByValidator)
                     => Len(wire) = 1 /\ AssetKindSent(wire[1])
           ELSE /\ outcome = Rejected("ValueError")
                /\ ~Sent
                /\ after = passed

C11_Witness ==
    /\ op = "category_create"
    /\ "assetType" \in DOMAIN passed
    /\ passed["assetType"] = PyInt(3)
    /\ outcome = Rejected("ValueError")
    /\ ~Sent

\* C12: a user create/edit call with twoFA=True and no phone (or an empty
\* one) fails validation before any request; with twoFA=True and a phone
\* value (and no other optional argument) validation passes and the wrapped
\* operation receives, and in management mode sends, the phone as its text.
UserOps == {"users_create", "users_edit"}

NoPhone(a) == "phone" \notin DOMAIN a \/ a["phone"] \in {PyNone, PyStr("")}

PhoneGiven(a) ==
    /\ "phone" \in DOMAIN a
    /\ \/ a["phone"].t = "int" /\ a["phone"].n > 0
       \/ a["phone"].t = "str" /\ a["phone"].s # ""

OnlyTwoFAAndPhone(a) ==
    /\ DOMAIN a \subseteq {"email", "password", "userId", "phone", "twoFA"}
    /\ {"email", "password"} \subseteq DOMAIN a \/ "userId" \in DOMAIN a

C12_TwoFANeedsPhone ==
    (op \in UserOps /\ "twoFA" \in DOMAIN passed /\ passed["twoFA"] = PyBool(TRUE))
        => /\ NoPhone(passed) => RejectedByValidator
           /\ (PhoneGiven(passed) /\ OnlyTwoFAAndPhone(passed))
                 => /\ outcome.at # "validator"
                    /\ flag = "mgmt"
                          => /\ Len(wire) = 1
                             /\ wire[1].json.d["phone"] = PyStr(StringForm(passed["phone"]))
                             /\ wire[1].json.d["twoFactorAuth"] = PyBool(TRUE)

C12_Witness ==
    /\ op = "users_create"
    /\ "twoFA" \in DOMAIN passed
    /\ passed["twoFA"] = PyBool(TRUE)
    /\ "phone" \in DOMAIN passed
    /\ passed["phone"] = PyInt(1234567890)
    /\ Sent
    /\ wire[1].json.d["phone"] = PyStr("1234567890")

\* C13: a user create/edit call whose twoFA argument is present and is not a
\* boolean (0, 1, '' or 'yes'; None is left aside as "not given") is rejected
\* before dispatch: it raises and no request is sent.
C13_NonBooleanTwoFARejected ==
    (op \in UserOps /\ "twoFA" \in DOMAIN passed /\ passed["twoFA"].t \in {"int", "str"})
        => outcome.kind = "raise" /\ ~Sent

\* C14: in management mode a successful construction issues exactly one
\* request, the login POST of the client id and secret, and sets the
\* session's Authorization header to the bearer token of its answer; no later
\* operation but the token accessor issues a login request, and each of their
\* requests goes through the session with the session's headers; the token
\* accessor issues a login request exactly when the session has no
\* Authorization header.
BearerOf(rsp) ==
    IF "access_token" \in DOMAIN rsp.json.v.d
    THEN "Bearer " \o rsp.json.v.d["access_token"].s
    ELSE "Bearer None"

IsLogin(req, cid, csec) ==
    /\ req.verb = "POST"
    /\ req.url = host \o "/api/1.0/login"
    /\ req.data = PyDict([client_id |-> cid, client_secret |-> csec])

HeaderAbsentBefore ==
    "Authorization" \notin DOMAIN (IF Sent THEN wire[1].headers ELSE sessionHeaders)

C14_LoginOnceThenLazily ==
    /\ (Called("Knowi") /\ passed.flag = "mgmt" /\ outcome.kind = "return")
          => /\ Len(wire) = 1
             /\ IsLogin(wire[1], passed.clientId, passed.clientSecret)
             /\ sessionHeaders = [k \in {"Authorization"} |-> BearerOf(answers[1])]
    /\ (constructed /\ flag = "mgmt" /\ op \notin {"none", "Knowi", "getBearerToken"})
          => \A i \in DOMAIN wire :
                /\ wire[i].url # host \o "/api/1.0/login"
                /\ wire[i].via = "session"
                /\ wire[i].headers = sessionHeaders
    /\ (Called("getBearerToken") /\ flag = "mgmt")
          => /\ Sent <=> HeaderAbsentBefore
             /\ Sent => Len(wire) = 1 /\ IsLogin(wire[1], clientId, clientSecret)
             /\ outcome.kind = "return"
                   => /\ "Authorization" \in DOMAIN sessionHeaders
                      /\ outcome.val.data =
                            PyDict([Authorization |-> PyStr(sessionHeaders["Authorization"])])

C14_Witness ==
    /\ Called("getBearerToken")
    /\ flag = "mgmt"
    /\ Sent
    /\ outcome.kind = "return"
    /\ sessionHeaders = [k \in {"Authorization"} |-> "Bearer tok"]

\* C15: in SSO mode no login request is ever issued (not by construction, not
\* by a later call, not by the token accessor), and every request is a
\* one-off request outside the session, without an Authorization header.
SsoMode == (constructed /\ flag = "sso") \/ (Called("Knowi") /\ passed.flag = "sso")

C15_SsoNeverLogsIn ==
    SsoMode
        => /\ \A i \in DOMAIN wire :
                 /\ wire[i].via = "oneoff"
                 /\ ~EndsWith(wire[i].url, "/api/1.0/login")
                 /\ "Authorization" \notin DOMAIN wire[i].headers
           /\ op \in {"Knowi", "getBearerToken"} => ~Sent
           /\ sessionHeaders = EmptyDict

C15_Witness ==
    /\ constructed
    /\ flag = "sso"
    /\ Called("api_call")
    /\ Sent
    /\ wire[1].via = "oneoff"
    /\ wire[1].url = "https://www.knowi.com/sso/user/create"

\* C16: a facade call issues at most one HTTP request, and none when a
\* validator rejects it or when the mode check fails (a management operation
\* on an SSO client); a request that meets a transport failure or a
\* non-success status is not sent again and its error is raised by that call.
ManagementOps ==
    {"dashboard_shareToUserGroups", "dashboard_shareViaUrl", "category_list", "category_create",
     "category_shareToUserGroups", "users_create", "users_edit", "query_create", "query_edit",
     "dashboard_hashContentFilters", "dashboard_edit", "widget_edit", "dashboard_create",
     "dashboard_clone", "group_createGroupForUser", "group_editGroupForUser"}

C16_AtMostOneRequestNoRetry ==
    op \in ManagementOps \cup {"api_call"}
        => /\ Len(wire) <= 1
           /\ outcome.at = "validator" => ~Sent
           /\ (flag = "sso" /\ op \in ManagementOps)
                 => ~Sent /\ outcome.kind = "raise"
           /\ (Sent /\ answers = <<>>)
                 => Len(wire) = 1 /\ outcome = Raise("ConnectionError")
           /\ (answers # <<>> /\ ~Ok(answers[1]))
                 => /\ Len(wire) = 1
                    /\ Len(answers) = 1
                    /\ outcome = [Raise("KnowiApiException") EXCEPT !.rsp = answers[1]]

C16_Witness ==
    /\ op = "dashboard_shareViaUrl"
    /\ Len(wire) = 1
    /\ answers # <<>>
    /\ answers[1].status_code = 404
    /\ outcome.exc = "KnowiApiException"

\* C17: while a client exists its flag is 'mgmt' or 'sso', with a non-empty
\* clientId and clientSecret under 'mgmt' and a non-empty customerToken under
\* 'sso'; the flag is the one given at construction, and no operation changes
\* it (or the credentials) afterwards.
NonEmpty(v) == v.t = "str" /\ v.s # ""

ModeAndCredentials ==
    constructed
        => /\ flag \in {"mgmt", "sso"}
           /\ flag = "mgmt" => NonEmpty(clientId) /\ NonEmpty(clientSecret)
           /\ flag = "sso" => NonEmpty(ssoCustomerToken)

C17_ModeFixedAndCredentialed ==
    /\ []ModeAndCredentials
    /\ [][(~constructed /\ constructed') => (op' = "Knowi" /\ flag' = passed'.flag)]_vars
    /\ [][constructed => (constructed' /\ flag' = flag /\ clientId' = clientId
                           /\ clientSecret' = clientSecret
                           /\ ssoCustomerToken' = ssoCustomerToken)]_vars

C17_Witness ==
    /\ constructed
    /\ flag = "sso"
    /\ ssoCustomerToken = PyStr("k3y")
    /\ Called("api_call")
    /\ Sent

\* C18: the host a client keeps is the configured host without its trailing
\* slashes, so it never ends in '/', and the URL an api_call resolves is that
\* host, '/api/1.0' in management mode (nothing in SSO mode), and the path.
RECURSIVE StripSlashes(_)
StripSlashes(h) ==
    IF h # "" /\ SubSeq(h, Len(h), Len(h)) = "/" THEN StripSlashes(SubSeq(h, 1, Len(h) - 1))
    ELSE h

C18_ResolvedUrl ==
    /\ (Called("Knowi") /\ constructed) => host = StripSlashes(passed.host)
    /\ constructed => ~EndsWith(host, "/")
    /\ (Called("api_call") /\ Sent)
          => wire[1].url = host \o (IF flag = "mgmt" THEN "/api/1.0" ELSE "") \o passed.apiMethod

\* C19: whatever data, json and params an api_call is given, neither the data
\* nor the json payload of the request it sends has a key whose value is null.
NoNullKey(payload) ==
    payload.t = "dict" => \A k \in DOMAIN payload.d : payload.d[k].t # "NoneType"

C19_NoNullInEitherPayload ==
    (op \notin {"none", "Knowi", "getBearerToken"} /\ Sent)
        => NoNullKey(wire[1].data) /\ NoNullKey(wire[1].json)

\* C20: query_create and query_edit are never rejected on account of
\* queryProperty.direct: whether it is absent, False, True or not a boolean,
\* a call whose queryProperty is otherwise valid passes the validator and, in
\* management mode, is dispatched.
OtherwiseValidQuery(a) ==
    /\ "queryProperty" \in DOMAIN a
    /\ a["queryProperty"].t = "dict"
    /\ "categories" \in DOMAIN a["queryProperty"].d
          => a["queryProperty"].d["categories"].t = "list"

C20_DirectNeverRejects ==
    (op \in {"query_create", "query_edit"} /\ OtherwiseValidQuery(passed))
        => /\ outcome.at # "validator"
           /\ flag = "mgmt" => Sent

\* C21: category_shareToUserGroups checks the asset type before the share
\* targets: a call with an invalid assetType and share targets fails with
\* the asset-type error (ValueError) before any request, and no target has
\* been inspected or normalized: the records, their `type` values included,
\* are as the caller passed them.
InvalidAssetTypeWithTargets ==
    /\ op = "category_shareToUserGroups"
    /\ ~RecognizedAssetKind(Get(passed, "assetType"))
    /\ Truthy(Get(passed, "shareProperty"))

C21_AssetTypeBeforeTargets ==
    InvalidAssetTypeWithTargets
        => /\ outcome = Rejected("ValueError")
           /\ ~Sent
           /\ after["shareProperty"] = passed["shareProperty"]
           /\ \A i \in DOMAIN passed["shareProperty"].items :
                 "type" \in DOMAIN passed["shareProperty"].items[i]
                     => after["shareProperty"].items[i]["type"]
                            = passed["shareProperty"].items[i]["type"]

\* an invalid asset type beside a target the share validator would have
\* rewritten ("users"), and beside one it would have rejected
C21_Witness ==
    /\ InvalidAssetTypeWithTargets
    /\ Get(passed, "assetType") = PyInt(3)
    /\ passed["shareProperty"].items[1]["type"] = PyStr("users")
    /\ outcome = Rejected("ValueError")
    /\ after = passed

\* C22: on every operation behind the user-parameter validator, a non-empty
\* list under `contentFilters` or under `contentFilter` is checked by the
\* content-filter validator: a clause that lacks a field or carries an
\* operator outside the accepted set, under either key, makes the call
\* fail before any request, also when both keys are passed in the same call.
UserValidatedOps ==
    {"users_create", "users_edit", "dashboard_shareViaUrl", "dashboard_hashContentFilters"}

IllFormedFilters(v) ==
    /\ NonEmptyList(v)
    /\ \E i \in DOMAIN v.items : ~ClausePasses(v.items[i])

C22_FiltersUnderEitherKeyChecked ==
    (/\ op \in UserValidatedOps
     /\ \/ IllFormedFilters(Get(passed, "contentFilters"))
        \/ IllFormedFilters(Get(passed, "contentFilter")))
        => outcome.kind = "raise" /\ ~Sent

\* C23: on users_create and users_edit a non-empty `groups` argument that is
\* not a list is rejected before any request; a `groups` list is rejected
\* when one of its records lacks `access_level` or `id` or has an
\* access_level outside {1, 2}; a list whose every record has `id` and an
\* access_level of 1 or 2 passes the groups rule (no other validated
\* argument being passed, the validator does not reject the call).
GroupRecordFails(g) ==
    \/ ~({"access_level", "id"} \subseteq DOMAIN g)
    \/ g["access_level"] \notin {PyInt(1), PyInt(2)}

OnlyGroupsValidated(a) ==
    DOMAIN a \cap {"timezone", "twoFA", "userInviteJson", "contentFilter", "contentFilters",
                   "autoShareTo"} = {}

C23_GroupsRule ==
    (op \in UserOps /\ Truthy(Get(passed, "groups")))
        => LET groups == passed["groups"]
           IN  IF groups.t # "list"
               THEN RejectedByValidator /\ outcome.exc = "TypeError"
               ELSE IF \E n \in DOMAIN groups.items : GroupRecordFails(groups.items[n])
               THEN RejectedByValidator /\ outcome.exc = "KnowiException"
               ELSE OnlyGroupsValidated(passed) => ~RejectedByValidator

\* a list whose second record alone fails the rule
C23_Witness ==
    /\ op = "users_edit"
    /\ "groups" \in DOMAIN passed
    /\ passed["groups"].t = "list"
    /\ Len(passed["groups"].items) = 2
    /\ ~GroupRecordFails(passed["groups"].items[1])
    /\ GroupRecordFails(passed["groups"].items[2])
    /\ RejectedByValidator

\* C24: the mode guard of api_call partitions the endpoint paths between the
\* two modes: a path is accepted in exactly one of management mode and SSO
\* mode, so a call the guard of the client's mode lets through is one the
\* guard of the other mode refuses, and a call it refuses is one the other
\* mode accepts.
OtherMode(f) == IF f = "sso" THEN "mgmt" ELSE "sso"

RefusedByModeGuard == outcome.kind = "raise" /\ outcome.exc = "KnowiException" /\ ~Sent

C24_ModeGuardPartitionsPaths ==
    Called("api_call")
        => (RefusedByModeGuard <=> ~ModeMismatch(OtherMode(flag), passed.apiMethod))

\* C25: construction in management mode does not inspect the outcome of the
\* login exchange: when the login response is a JSON object without
\* `access_token`, construction succeeds without raising and the session's
\* Authorization header is 'Bearer None'; the token accessor then finds the
\* header present: it sends no login request, leaves the header as it is and
\* returns it.
LoginWithoutToken(rsp) ==
    rsp.json.valid /\ rsp.json.v.t = "dict" /\ "access_token" \notin DOMAIN rsp.json.v.d

ConstructedOnFailedLogin ==
    (Called("Knowi") /\ answers # <<>> /\ LoginWithoutToken(answers[1]))
        => /\ outcome.kind = "return"
           /\ constructed
           /\ flag = "mgmt"
           /\ sessionHeaders = [k \in {"Authorization"} |-> "Bearer None"]

AccessorKeepsBearerNone ==
    (/\ flag = "mgmt"
     /\ "Authorization" \in DOMAIN sessionHeaders
     /\ sessionHeaders["Authorization"] = "Bearer None"
     /\ op' = "getBearerToken")
        => /\ wire' = <<>>
           /\ sessionHeaders' = sessionHeaders
           /\ outcome'.kind = "return"
           /\ outcome'.val.data = PyDict([k \in {"Authorization"} |-> PyStr("Bearer None")])

C25_LoginOutcomeNotInspected ==
    /\ []ConstructedOnFailedLogin
    /\ [][AccessorKeepsBearerNone]_vars

\* the accessor called on a client that was constructed on a rejected login
C25_Witness ==
    /\ Called("getBearerToken")
    /\ wire = <<>>
    /\ outcome.kind = "return"
    /\ outcome.val.data = PyDict([k \in {"Authorization"} |-> PyStr("Bearer None")])

\* C26: dashboard_edit and widget_edit called without `categories` (or with
\* categories=None) transmit the key `categories` with an empty list, while
\* the other optional fields the caller left unset (widgetName, widgetType,
\* chartProperties) are null and are not in the transmitted payload.
Unset(a, key) == Get(a, key) = PyNone

OmittedWhenUnset(arg, field) ==
    Unset(passed, arg) => field \notin DOMAIN wire[1].json.d

C26_EmptyCategoriesSentNullsOmitted ==
    (/\ op \in {"dashboard_edit", "widget_edit"}
     /\ flag = "mgmt"
     /\ (IF op = "dashboard_edit" THEN {"dashboardId", "newName"} ELSE {"widgetId"})
            \subseteq DOMAIN passed
     /\ Unset(passed, "categories"))
        => /\ Len(wire) = 1
           /\ wire[1].json.t = "dict"
           /\ "categories" \in DOMAIN wire[1].json.d
           /\ wire[1].json.d["categories"] = PyList(<<>>)
           /\ op = "widget_edit"
                 => /\ OmittedWhenUnset("widgetName", "widgetName")
                    /\ OmittedWhenUnset("widgetType", "widgetType")
                    /\ OmittedWhenUnset("chartProps", "chartProperties")

C26_Witness ==
    /\ op = "widget_edit"
    /\ flag = "mgmt"
    /\ DOMAIN passed = {"widgetId"}
    /\ Len(wire) = 1
    /\ DOMAIN wire[1].json.d = {"categories"}
    /\ wire[1].json.d["categories"] = PyList(<<>>)

\* C27: content filters passed to sso_createNewUser and
\* sso_updateUserContentFilters through `userFilters` are checked by the
\* content-filter validator: a `userFilters` clause that lacks a required
\* field or carries an operator outside the accepted set makes the call fail
\* before any request is sent.
SsoUserOps == {"sso_createNewUser", "sso_updateUserContentFilters"}

C27_UserFiltersChecked ==
    (op \in SsoUserOps /\ IllFormedFilters(Get(passed, "userFilters")))
        => outcome.kind = "raise" /\ ~Sent

\* C28: every management facade operation passes api_call a path that begins
\* with '/' and separates each literal segment from each interpolated id
\* with '/', so the URL of its request is the client's host, '/api/1.0/' and
\* the segments: group_createGroupForUser requests
\* .../api/1.0/users/{userId}/groups and group_editGroupForUser requests
\* .../api/1.0/users/{userId}/groups/{groupId}.
ManagementFacadeOps ==
    {"dashboard_shareToUserGroups", "dashboard_shareViaUrl", "dashboard_hashContentFilters",
     "dashboard_edit", "widget_edit", "category_list", "category_create",
     "category_shareToUserGroups", "users_create", "users_edit", "query_create", "query_edit",
     "group_createGroupForUser", "group_editGroupForUser", "dashboard_create",
     "dashboard_clone"}

C28_FacadePathsWellFormed ==
    (op \in ManagementFacadeOps /\ Sent)
        => /\ StartsWith(wire[1].url, host \o "/api/1.0/")
           /\ op = "group_createGroupForUser"
                 => wire[1].url = host \o "/api/1.0/users/" \o StrOf(passed["userId"]) \o "/groups"
           /\ op = "group_editGroupForUser"
                 => wire[1].url = host \o "/api/1.0/users/" \o StrOf(passed["userId"])
                                       \o "/groups/" \o StrOf(passed["groupId"])

\* C29: dashboard_create and dashboard_clone transmit screenWidth and
\* screenHeight independently of each other: each is the caller's value when
\* the caller passed that keyword and the default (1000 for the width, 800
\* for the height) when not, in all four combinations, and the call never
\* fails because only one of the two was passed.
C29_ScreenSizesIndependent ==
    (/\ op \in {"dashboard_create", "dashboard_clone"}
     /\ flag = "mgmt"
     /\ (IF op = "dashboard_create" THEN {"dashboardName"} ELSE {"dashboardId", "clonedName"})
            \subseteq DOMAIN passed)
        => /\ Len(wire) = 1
           /\ wire[1].json.d["screenWidth"] = GetOr(passed, "screenWidth", PyInt(1000))
           /\ wire[1].json.d["screenHeight"] = GetOr(passed, "screenHeight", PyInt(800))

\* C30: every rejection raised by the share-target validator is of the
\* library's own error type, KnowiException, for Users and Groups targets
\* alike: a missing `type`, a missing required key, an access_level outside
\* {1, 2} and an unrecognized `type` all raise KnowiException.
C30_ShareRejectionsAreKnowiExceptions ==
    (Called("dashboard_shareToUserGroups") /\ RejectedByValidator)
        => outcome.exc = "KnowiException"

====
